---- MODULE Spec2Model ----
(***************************************************************************)
(* Model of the netctrl-agent daemon control loop                          *)
(* (internal/agent/agent.go, internal/agent/backoff.go,                    *)
(* internal/instruction/handler.go and the instruction handlers).          *)
(*                                                                         *)
(* Time is counted in whole seconds.  The periodic ticker is kept as the   *)
(* time left to its next grid point plus a "tick pending" flag; the        *)
(* module is built with go 1.25, so Ticker.Reset discards a tick that was  *)
(* prepared before the call.                                               *)
(***************************************************************************)
EXTENDS Integers, Sequences, FiniteSets, TLC

\* ------------------------------------------------------------------ bounds
\* Spec: instructions per response, consecutive failed cycles
MaxBatch == 3
MaxFailStreak == 2
\* SpecOutage: instructions per response, consecutive failed cycles counted
MaxOutageBatch == 1
MaxIntervalBatch == 3
MaxPiggybackBatch == 2
MaxPiggybackPolls == 3
MaxDevices == 2
MaxOutage == 8
\* SpecBackoff: calls made on one Backoff
MaxCalls == 10
\* SpecApi: calls of Register, and of Unregister, made on one agent
MaxApiCalls == 3
\* SpecRegistry: calls made on one Registry
MaxRegistryCalls == 3
\* SpecHandlers: calls made on the handlers of one agent
MaxHandlerCalls == 2
\* SpecUUID: characters of a hostname or an address, calls of GenerateUUID
MaxNameLen == 2
MaxUuidCalls == 2

\* ------------------------------------------------------- program constants
InitialBackoff == 1
MaxBackoff == 60
MinPollInterval == 10
MaxPollInterval == 300
DefaultPollInterval == 60
UnregisterTimeout == 10

\* ------------------------------------------------------------ input sets
\* payload of an instruction: the interval_seconds it carries, or Malformed
\* for a payload json.Unmarshal rejects
Malformed == -1
PayloadValues == {Malformed, 9, 300}
\* pollIntervalSeconds of a GetInstructions response (0: field not set)
RespIntervals == {0, 5}
\* seconds a successful GetInstructions round trip may take
Durations == {7}
\* seconds a failing GetInstructions call may take
FailDurations == {0}

POLL_INTERVAL == "POLL_INTERVAL"
HEALTH_CHECK == "HEALTH_CHECK"
COLLECT_HARDWARE == "COLLECT_HARDWARE"
UNSPECIFIED == "UNSPECIFIED"
InstructionTypes == {POLL_INTERVAL, HEALTH_CHECK, COLLECT_HARDWARE, UNSPECIFIED}

Min(a, b) == IF a < b THEN a ELSE b

RECURSIVE Pow2(_)
Pow2(n) == IF n <= 0 THEN 1 ELSE 2 * Pow2(n - 1)

VARIABLES
    pc,             \* position of Run: start, select, get, dispatch, sleep, done
    agentID,        \* Agent.agentID (<<>> until Register stores it)
    pollInterval,   \* Agent.pollInterval, seconds
    registry,       \* Registry.handlers: instruction type -> handler
    backoff,        \* Backoff.current of Run's backoff, seconds
    tickerPeriod,   \* period of Run's ticker (0: not created)
    tickIn,         \* seconds to the ticker's next grid point
    tickPending,    \* a tick is ready to be received from ticker.C
    ctxCancelled,   \* Run's ctx is done
    connOpen,       \* poll's grpcClient is open
    batch,          \* resp.Instructions of the cycle in progress
    idx,            \* position of poll's range loop in batch
    respInterval,   \* resp.PollIntervalSeconds of the cycle in progress
    sleepLeft,      \* seconds left of the time.Sleep in progress
    submits,        \* SubmitInstructionResult requests of the current cycle
    execs,          \* handler invocations of the current cycle, each with
                    \* the number of results submitted before it
    registerCalls,  \* invocations of Agent.Register
    registered,     \* what Agent.Register returned: none, ok, failed
    unregisterCalls,\* invocations of Agent.Unregister
    unregisterCtx,  \* the context handed to Agent.Unregister
    polled,         \* a poll cycle was started
    failStreak,     \* consecutive failed cycles since the last success
                    \* (MaxOutage: that many or more)
    lastCycle,      \* outcome of the last finished cycle: none, ok, failed
    cycleInterval,  \* pollInterval when the current cycle started
    cyclePeriod,    \* tickerPeriod when the current cycle started
    callbackInterval,   \* last argument of updatePollInterval in the cycle
    backoffBeforeReset, \* Backoff.current the last Reset replaced (0 once a
                        \* later cycle has connected)
    runResult,      \* what Run returned: none, registration_failed, ctx_err
    hostname,       \* Agent.hostname (<<>> until Register stores it)
    ipAddress,      \* Agent.ipAddress (<<>> until Register stores it)
    unregisterResult,   \* what the last Agent.Unregister returned
    submitFailed,   \* a SubmitInstructionResult call of the cycle failed
    reqIds,         \* agent id carried by the last request of each RPC
    cycles,         \* poll cycles in progress: begun with a tick received,
                    \* not yet back at the select
    openConns,      \* client connections created and not yet closed
    exitCode,       \* exit status of the process (Running: not exited)
    lastInstructionID, \* piggybacked version: id of the last instruction
                    \* processed (0: the empty string)
    lastResultData, \* piggybacked version: its result, not yet sent
    calls           \* calls made on an object on its own, oldest first

vars == <<pc, agentID, pollInterval, registry, backoff, tickerPeriod, tickIn,
          tickPending, ctxCancelled, connOpen, batch, idx, respInterval,
          sleepLeft, submits, execs, registerCalls, unregisterCalls,
          unregisterCtx, polled, failStreak, lastCycle, cycleInterval,
          cyclePeriod, runResult, registered, callbackInterval,
          backoffBeforeReset, hostname, ipAddress, unregisterResult,
          submitFailed, reqIds, cycles, openConns, exitCode,
          lastInstructionID, lastResultData, calls>>

agentVars == <<agentID, hostname, ipAddress, pollInterval, registry>>
tickerVars == <<tickerPeriod, tickIn, tickPending>>
cycleVars == <<batch, idx, respInterval, submits, execs, callbackInterval,
               submitFailed>>
startVars == <<registerCalls, registered>>
shutdownVars == <<unregisterCalls, unregisterCtx, unregisterResult>>

\* ------------------------------------------------------------ the agent
\* instruction.NewRegistry: a registry without handlers
NewRegistry == [t \in {} |-> "none"]

\* mutant: a type keeps the handler it was first registered with
RegistryRegisterKeepsFirst(reg, t, h) ==
    [x \in DOMAIN reg \cup {t} |-> IF x \in DOMAIN reg THEN reg[x] ELSE h]

\* Registry.Register: the handlers map after the call
RegistryRegister(reg, t, h) ==
    [x \in DOMAIN reg \cup {t} |-> IF x = t THEN h ELSE reg[x]]

\* mutant: the agent is built without the hardware handler
AgentRegistryWithoutHardware ==
    RegistryRegister(
        RegistryRegister(NewRegistry, POLL_INTERVAL, "PollIntervalHandler"),
        HEALTH_CHECK, "HealthCheckHandler")

\* New: the registry of a new agent, with the handlers the constructor
\* registers
AgentRegistry ==
    RegistryRegister(
        RegistryRegister(
            RegistryRegister(NewRegistry, POLL_INTERVAL, "PollIntervalHandler"),
            HEALTH_CHECK, "HealthCheckHandler"),
        COLLECT_HARDWARE, "CollectHardwareHandler")

\* mutant: any registered handler answers for every type
HasHandlerOfAnyType(reg, t) == DOMAIN reg # {}

\* Registry.HasHandler
HasHandler(reg, t) == t \in DOMAIN reg

\* a Go string is the sequence of its characters; "" is <<>>
\* discovery.GetHostname and discovery.GetPrimaryIPAddress of the node
GetHostname == <<"n", "1">>
GetPrimaryIPAddress == <<"1", "0", ".", "1">>

\* sha256.Sum256 and the formatting of its first 16 bytes: the digest
\* stands for the data it was computed from, so two digests are equal
\* exactly when their data are equal
Sha256(data) == <<"sha256">> \o data

\* discovery.GenerateUUID: the digest of hostname + ":" + ip
GenerateUUID(hostname_, ip) == Sha256(hostname_ \o <<":">> \o ip)

\* the process has not exited
Running == -1

\* the empty string a handler returns together with an error; the JSON
\* object of a result is kept as a record of the members looked at
NoData == [empty |-> TRUE]

NoCtx == [parent |-> "none", timeout |-> 0, cancelled |-> FALSE]

\* no request of any RPC has been sent
NoRequests ==
    [rpc \in {"RegisterAgent", "GetInstructions", "UnregisterAgent"} |-> <<>>]

Init ==
    /\ pc = "start"
    /\ agentID = <<>>
    /\ pollInterval = DefaultPollInterval
    /\ registry = AgentRegistry
    /\ backoff = 0
    /\ tickerPeriod = 0
    /\ tickIn = 0
    /\ tickPending = FALSE
    /\ ctxCancelled = FALSE
    /\ connOpen = FALSE
    /\ batch = <<>>
    /\ idx = 0
    /\ respInterval = 0
    /\ sleepLeft = 0
    /\ submits = <<>>
    /\ execs = <<>>
    /\ registerCalls = 0
    /\ unregisterCalls = 0
    /\ unregisterCtx = NoCtx
    /\ polled = FALSE
    /\ failStreak = 0
    /\ lastCycle = "none"
    /\ cycleInterval = 0
    /\ cyclePeriod = 0
    /\ runResult = "none"
    /\ registered = "none"
    /\ callbackInterval = 0
    /\ backoffBeforeReset = 0
    /\ hostname = <<>>
    /\ ipAddress = <<>>
    /\ unregisterResult = "none"
    /\ submitFailed = FALSE
    /\ reqIds = NoRequests
    /\ cycles = 0
    /\ openConns = 0
    /\ exitCode = Running
    /\ lastInstructionID = 0
    /\ lastResultData = NoData
    /\ calls = <<>>

\* ------------------------------------------------------------ Backoff
NewBackoff == InitialBackoff

\* mutant: the delay is doubled before it is returned
BackoffNextReturnsDoubled(cur) ==
    [ret |-> IF cur * 2 > MaxBackoff THEN MaxBackoff ELSE cur * 2,
     current |-> IF cur * 2 > MaxBackoff THEN MaxBackoff ELSE cur * 2]

\* mutant: the cap is tested before the delay is doubled
BackoffNextCapsLate(cur) ==
    [ret |-> cur,
     current |-> IF cur > MaxBackoff THEN MaxBackoff ELSE cur * 2]

\* mutant: the doubled delay is not capped
BackoffNextUncapped(cur) ==
    [ret |-> cur, current |-> cur * 2]

\* Backoff.Next: the delay returned and the delay kept
BackoffNext(cur) ==
    [ret |-> cur,
     current |-> IF cur * 2 > MaxBackoff THEN MaxBackoff ELSE cur * 2]

\* mutant: Reset restores the maximum
BackoffResetToMax == MaxBackoff

\* Backoff.Reset: the delay kept
BackoffReset == InitialBackoff

\* mutant: Current advances the delay as Next does
BackoffCurrentAdvances(cur) ==
    [ret |-> cur,
     current |-> IF cur * 2 > MaxBackoff THEN MaxBackoff ELSE cur * 2]

\* Backoff.Current: the delay returned and the delay kept
BackoffCurrent(cur) == [ret |-> cur, current |-> cur]

\* ------------------------------------------------------------ the ticker
\* the ticker after d seconds have passed: grid points lie one period
\* apart and at most one tick is kept for a slow receiver
TickerAfter(d) ==
    IF d < tickIn
    THEN [tickIn |-> tickIn - d, pending |-> tickPending]
    ELSE [tickIn |-> tickerPeriod - ((d - tickIn) % tickerPeriod),
          pending |-> TRUE]

Elapse(d) ==
    /\ tickIn' = TickerAfter(d).tickIn
    /\ tickPending' = TickerAfter(d).pending
    /\ tickerPeriod' = tickerPeriod

\* `case <-ticker.C`: wait for the next grid point unless a tick is pending
ReceiveTick ==
    /\ tickPending' = FALSE
    /\ tickIn' = IF tickPending THEN tickIn ELSE tickerPeriod
    /\ tickerPeriod' = tickerPeriod

\* ticker.Reset(d)
TickerReset(d) ==
    /\ tickerPeriod' = d
    /\ tickIn' = d
    /\ tickPending' = FALSE

\* ------------------------------------------------------------ instructions
Instruction(i, t, p) == [id |-> i, type |-> t, payload |-> p]

\* the instructions a response may list at position i
InstructionsAt(i) ==
    {Instruction(i, POLL_INTERVAL, p) : p \in PayloadValues}
    \cup {Instruction(i, t, 0) : t \in InstructionTypes \ {POLL_INTERVAL}}

RECURSIVE BatchesOfLen(_)
BatchesOfLen(n) ==
    IF n = 0 THEN {<<>>}
    ELSE {Append(b, ins) : b \in BatchesOfLen(n - 1), ins \in InstructionsAt(n)}

\* resp.Instructions: up to MaxBatch instructions with distinct ids
Batches == UNION {BatchesOfLen(n) : n \in 0..MaxBatch}

\* payloads of POLL_INTERVAL instructions of a server that retunes the agent:
\* one below the accepted range and two different accepted ones
IntervalPayloads == {9, 30, 300}

IntervalInstructionsAt(i) ==
    {Instruction(i, POLL_INTERVAL, p) : p \in IntervalPayloads}
    \cup {Instruction(i, HEALTH_CHECK, 0)}

RECURSIVE IntervalBatchesOfLen(_)
IntervalBatchesOfLen(n) ==
    IF n = 0 THEN {<<>>}
    ELSE {Append(b, ins) : b \in IntervalBatchesOfLen(n - 1),
                           ins \in IntervalInstructionsAt(n)}

\* resp.Instructions of that server
IntervalBatches == UNION {IntervalBatchesOfLen(n) : n \in 0..MaxIntervalBatch}

\* resp.Instructions of a server with little work
OutageBatches == UNION {BatchesOfLen(n) : n \in 0..MaxOutageBatch}

NoError == <<>>
NilResult == [kind |-> "nil"]

\* a nil *v1.Instruction
NilInstruction == [id |-> 0, type |-> "nil", payload |-> 0]

NilInstructionError == <<"instruction is nil">>

\* mutant: the callback is invoked before the interval is validated
PollIntervalExecuteCallsBackFirst(ins) ==
    IF ins = NilInstruction
    THEN [err |-> NilInstructionError, data |-> NoData, interval |-> 0]
    ELSE IF ins.payload = Malformed
    THEN [err |-> <<"failed to parse poll interval payload">>,
          data |-> NoData, interval |-> 0]
    ELSE IF ins.payload < MinPollInterval \/ ins.payload > MaxPollInterval
    THEN [err |-> <<"poll interval is out of range">>,
          data |-> NoData, interval |-> ins.payload]
    ELSE [err |-> NoError,
          data |-> [status |-> "ok", interval_seconds |-> ins.payload],
          interval |-> ins.payload]

\* PollIntervalHandler.Execute; interval is the argument of the callback
\* (0: callback not invoked); a payload without interval_seconds parses
\* to 0
PollIntervalExecute(ins) ==
    IF ins = NilInstruction
    THEN [err |-> NilInstructionError, data |-> NoData, interval |-> 0]
    ELSE IF ins.payload = Malformed
    THEN [err |-> <<"failed to parse poll interval payload">>,
          data |-> NoData, interval |-> 0]
    ELSE IF ins.payload < MinPollInterval \/ ins.payload > MaxPollInterval
    THEN [err |-> <<"poll interval is out of range">>,
          data |-> NoData, interval |-> 0]
    ELSE [err |-> NoError,
          data |-> [status |-> "ok", interval_seconds |-> ins.payload],
          interval |-> ins.payload]

\* mutant: the health check reads its payload
HealthCheckExecuteParsesPayload(ins) ==
    IF ins = NilInstruction
    THEN [err |-> NilInstructionError, data |-> NoData, interval |-> 0]
    ELSE IF ins.payload = Malformed
    THEN [err |-> <<"failed to parse health check payload">>,
          data |-> NoData, interval |-> 0]
    ELSE [err |-> NoError, data |-> [status |-> "active"], interval |-> 0]

\* HealthCheckHandler.Execute
HealthCheckExecute(ins) ==
    IF ins = NilInstruction
    THEN [err |-> NilInstructionError, data |-> NoData, interval |-> 0]
    ELSE [err |-> NoError, data |-> [status |-> "active"], interval |-> 0]

\* CollectHardwareHandler.Execute; enumerated: collectMellanoxNICs succeeded
CollectHardwareExecute(ins, enumerated) ==
    IF ins = NilInstruction
    THEN [err |-> NilInstructionError, data |-> NoData, interval |-> 0]
    ELSE IF enumerated
    THEN [err |-> NoError,
          data |-> [instruction_type |-> "INSTRUCTION_TYPE_COLLECT_HARDWARE"],
          interval |-> 0]
    ELSE [err |-> <<"failed to collect Mellanox NICs">>,
          data |-> NoData, interval |-> 0]

\* the handlers of the registry's tests: each returns the result and the
\* error it was built with
MockHandlers == {"mockResult", "mockError", "mockBoth"}

\* mockHandler.Execute
MockExecute(h) ==
    CASE h = "mockResult" ->
            [err |-> NoError, data |-> [status |-> "ok"], interval |-> 0]
      [] h = "mockError" ->
            [err |-> <<"handler error">>, data |-> NoData, interval |-> 0]
      [] h = "mockBoth" ->
            [err |-> <<"handler error">>, data |-> [status |-> "partial"],
             interval |-> 0]

\* handler.Execute(ctx, instruction) on the handler h
HandlerExecute(h, ins, enumerated) ==
    CASE h = "PollIntervalHandler" -> PollIntervalExecute(ins)
      [] h = "HealthCheckHandler" -> HealthCheckExecute(ins)
      [] h = "CollectHardwareHandler" -> CollectHardwareExecute(ins, enumerated)
      [] h \in MockHandlers -> MockExecute(h)

\* mutant: a missing handler is reported with the error of a nil
\* instruction
RegistryExecuteSameError(reg, ins, enumerated) ==
    IF ins = NilInstruction \/ ins.type \notin DOMAIN reg
    THEN [err |-> NilInstructionError,
          data |-> NoData, interval |-> 0, invoked |-> <<>>]
    ELSE LET out == HandlerExecute(reg[ins.type], ins, enumerated)
         IN  [err |-> out.err, data |-> out.data, interval |-> out.interval,
              invoked |-> <<reg[ins.type]>>]

\* Registry.Execute; invoked: the handlers it called
RegistryExecute(reg, ins, enumerated) ==
    IF ins = NilInstruction
    THEN [err |-> NilInstructionError,
          data |-> NoData, interval |-> 0, invoked |-> <<>>]
    ELSE IF ins.type \notin DOMAIN reg
    THEN [err |-> <<"no handler registered for instruction type:", ins.type>>,
          data |-> NoData, interval |-> 0, invoked |-> <<>>]
    ELSE LET out == HandlerExecute(reg[ins.type], ins, enumerated)
         IN  [err |-> out.err, data |-> out.data, interval |-> out.interval,
              invoked |-> <<reg[ins.type]>>]

\* convertToProtoResult; parses: json.Unmarshal accepts the hardware result
convertToProtoResult(instructionType, resultData, parses) ==
    CASE instructionType = COLLECT_HARDWARE ->
            IF parses
            THEN [err |-> NoError,
                  result |-> [instructionType |-> instructionType,
                              kind |-> "HardwareCollection",
                              data |-> resultData]]
            ELSE [err |-> <<"failed to parse hardware result">>,
                  result |-> NilResult]
      [] instructionType = HEALTH_CHECK ->
            [err |-> NoError,
             result |-> [instructionType |-> instructionType,
                         kind |-> "HealthCheck",
                         healthy |-> TRUE,
                         errorMessage |-> NoError]]
      [] OTHER ->
            [err |-> <<"unsupported instruction type:", instructionType>>,
             result |-> NilResult]

\* mutant: the failure result says that the instruction failed, not why
createErrorResultWithoutCause(instructionType, err) ==
    [instructionType |-> instructionType,
     kind |-> "HealthCheck",
     healthy |-> FALSE,
     errorMessage |-> <<"instruction failed">>]

\* createErrorResult
createErrorResult(instructionType, err) ==
    [instructionType |-> instructionType,
     kind |-> "HealthCheck",
     healthy |-> FALSE,
     errorMessage |-> IF instructionType = HEALTH_CHECK
                      THEN err
                      ELSE <<"instruction failed:">> \o err]

\* mutant: the request names the agent by its hostname
submitResultSendsHostname(instructionID, instructionType, result, err) ==
    [agentId |-> hostname,
     instructionId |-> instructionID,
     result |-> IF err # NoError
                THEN createErrorResult(instructionType, err)
                ELSE result]

\* submitResult: the SubmitInstructionResult request it sends
submitResult(instructionID, instructionType, result, err) ==
    [agentId |-> agentID,
     instructionId |-> instructionID,
     result |-> IF err # NoError
                THEN createErrorResult(instructionType, err)
                ELSE result]

\* poll, lines 146-170: execute the instruction, convert the result and
\* submit it
ExecuteAndSubmit(reg, ins, enumerated, parses) ==
    LET out == RegistryExecute(reg, ins, enumerated)
        conv == convertToProtoResult(ins.type, out.data, parses)
    IN  IF out.err # NoError
        THEN [requests |-> <<submitResult(ins.id, ins.type, NilResult, out.err)>>,
              executed |-> TRUE, handlerErr |-> out.err,
              interval |-> out.interval]
        ELSE IF conv.err # NoError
        THEN [requests |-> <<submitResult(ins.id, ins.type, NilResult, conv.err)>>,
              executed |-> TRUE, handlerErr |-> NoError,
              interval |-> out.interval]
        ELSE [requests |-> <<submitResult(ins.id, ins.type, conv.result, NoError)>>,
              executed |-> TRUE, handlerErr |-> NoError,
              interval |-> out.interval]

\* mutant: an instruction without a handler is skipped without a result
ProcessInstructionSkipsUnsupported(reg, ins, enumerated, parses) ==
    IF ~HasHandler(reg, ins.type)
    THEN [requests |-> <<>>,
          executed |-> FALSE, handlerErr |-> NoError, interval |-> 0]
    ELSE ExecuteAndSubmit(reg, ins, enumerated, parses)

\* the body of poll's range loop for one instruction: the requests it
\* submits, whether a handler ran and with which error, and the argument
\* of the poll-interval callback
ProcessInstruction(reg, ins, enumerated, parses) ==
    IF ~HasHandler(reg, ins.type)
    THEN [requests |-> <<submitResult(ins.id, ins.type, NilResult,
                         <<"no handler registered for instruction type", ins.type>>)>>,
          executed |-> FALSE, handlerErr |-> NoError, interval |-> 0]
    ELSE ExecuteAndSubmit(reg, ins, enumerated, parses)

\* ------------------------------------------------------------ the client
\* client.NewClient: the connections open after the call; created: it
\* returned a client
NewClient(conns, created) == IF created THEN conns + 1 ELSE conns

\* Client.Close: the connections open after the call
ClientClose(conns) == conns - 1

\* `defer grpcClient.Close()`: the statement is reached only with a client,
\* and the close then runs on every return
DeferredClose(conns, created) == IF created THEN ClientClose(conns) ELSE conns

\* ------------------------------------------------------------ Run
RegisterOutcomes ==
    {"hostname_err", "ip_err", "client_err", "rpc_err", "nil_agent", "ok"}

\* Agent.Register: identity is stored once discovery succeeded, before the
\* connection is made; a cancelled context fails the RegisterAgent call
Register(outcome) ==
    /\ outcome \in RegisterOutcomes
    /\ ctxCancelled => outcome \notin {"nil_agent", "ok"}
    /\ registerCalls' = registerCalls + 1
    /\ registered' = IF outcome = "ok" THEN "ok" ELSE "failed"
    /\ agentID' = IF outcome \in {"hostname_err", "ip_err"}
                  THEN agentID ELSE GenerateUUID(GetHostname, GetPrimaryIPAddress)
    /\ hostname' = IF outcome \in {"hostname_err", "ip_err"}
                   THEN hostname ELSE GetHostname
    /\ ipAddress' = IF outcome \in {"hostname_err", "ip_err"}
                    THEN ipAddress ELSE GetPrimaryIPAddress
    /\ reqIds' = IF outcome \in {"rpc_err", "nil_agent", "ok"}
                 THEN [reqIds EXCEPT !["RegisterAgent"] = GenerateUUID(GetHostname, GetPrimaryIPAddress)]
                 ELSE reqIds
    /\ LET created == outcome \in {"rpc_err", "nil_agent", "ok"}
       IN  openConns' = DeferredClose(NewClient(openConns, created), created)

\* mutant: a failed registration is tried again
RunRegisterRetries(outcome) ==
    /\ pc = "start"
    /\ Register(outcome)
    /\ IF outcome = "ok"
       THEN /\ pc' = "select"
            /\ backoff' = NewBackoff
            /\ TickerReset(pollInterval)
       ELSE /\ pc' = "start"
            /\ UNCHANGED <<backoff, tickerVars>>
    /\ UNCHANGED <<calls, lastInstructionID, lastResultData, exitCode, cycles, pollInterval, registry, ctxCancelled, connOpen, cycleVars,
                   sleepLeft, shutdownVars, polled, failStreak, lastCycle,
                   cycleInterval, cyclePeriod, backoffBeforeReset, runResult>>

\* mutant: Run enters the polling loop whatever Register returned
RunRegisterIgnoresError(outcome) ==
    /\ pc = "start"
    /\ Register(outcome)
    /\ pc' = "select"
    /\ backoff' = NewBackoff
    /\ TickerReset(pollInterval)
    /\ runResult' = runResult
    /\ UNCHANGED <<calls, lastInstructionID, lastResultData, exitCode, cycles, pollInterval, registry, ctxCancelled, connOpen, cycleVars,
                   sleepLeft, shutdownVars, polled, failStreak, lastCycle,
                   cycleInterval, cyclePeriod, backoffBeforeReset>>

\* Run, lines 64-74: register, then create the backoff and the ticker
RunRegister(outcome) ==
    /\ pc = "start"
    /\ Register(outcome)
    /\ IF outcome = "ok"
       THEN /\ pc' = "select"
            /\ backoff' = NewBackoff
            /\ TickerReset(pollInterval)
            /\ runResult' = runResult
       ELSE /\ pc' = "done"
            /\ runResult' = "registration_failed"
            /\ UNCHANGED <<backoff, tickerVars>>
    /\ UNCHANGED <<calls, lastInstructionID, lastResultData, exitCode, cycles, pollInterval, registry, ctxCancelled, connOpen, cycleVars,
                   sleepLeft, shutdownVars, polled, failStreak, lastCycle,
                   cycleInterval, cyclePeriod, backoffBeforeReset>>

\* mutant: Run ends when poll returns an error
RunPollErrorReturns ==
    /\ pc' = "done"
    /\ failStreak' = Min(failStreak + 1, MaxOutage)
    /\ lastCycle' = "failed"
    /\ UNCHANGED <<backoff, sleepLeft, backoffBeforeReset>>

\* Run, lines 89-94: poll returned an error
RunPollError ==
    /\ backoff' = BackoffNext(backoff).current
    /\ sleepLeft' = BackoffNext(backoff).ret
    /\ pc' = "sleep"
    /\ failStreak' = Min(failStreak + 1, MaxOutage)
    /\ lastCycle' = "failed"
    /\ backoffBeforeReset' = backoffBeforeReset

\* mutant: the backoff is not reset after a successful cycle
RunPollOkKeepsBackoff ==
    /\ backoff' = backoff
    /\ TickerReset(pollInterval)
    /\ pc' = "select"
    /\ sleepLeft' = 0
    /\ failStreak' = 0
    /\ lastCycle' = "ok"
    /\ backoffBeforeReset' = backoff

\* mutant: the ticker is not re-armed after a successful cycle
RunPollOkNoRearm ==
    /\ backoff' = BackoffReset
    /\ UNCHANGED tickerVars
    /\ pc' = "select"
    /\ sleepLeft' = 0
    /\ failStreak' = 0
    /\ lastCycle' = "ok"
    /\ backoffBeforeReset' = backoff

\* Run, lines 95-100: poll returned nil
RunPollOk ==
    /\ backoff' = BackoffReset
    /\ TickerReset(pollInterval)
    /\ pc' = "select"
    /\ sleepLeft' = 0
    /\ failStreak' = 0
    /\ lastCycle' = "ok"
    /\ backoffBeforeReset' = backoff

\* the signal context is cancelled (SIGINT/SIGTERM)
Cancel ==
    /\ pc # "done"
    /\ ~ctxCancelled
    /\ ctxCancelled' = TRUE
    /\ UNCHANGED <<calls, lastInstructionID, lastResultData, exitCode, cycles, openConns, reqIds, pc, agentVars, backoff, tickerVars, connOpen,
                   cycleVars,
                   sleepLeft, startVars, shutdownVars, polled, failStreak,
                   lastCycle, cycleInterval, cyclePeriod, runResult,
                   backoffBeforeReset>>

\* mutant: a tick that fires while a cycle sleeps through its backoff
\* starts a cycle of its own
PollConnectOnEveryTick(created) ==
    /\ pc \in {"select", "sleep"}
    /\ tickPending \/ ~ctxCancelled
    /\ polled' = TRUE
    /\ cycleInterval' = pollInterval
    /\ cyclePeriod' = tickerPeriod
    /\ batch' = <<>>
    /\ idx' = 0
    /\ respInterval' = 0
    /\ submits' = <<>>
    /\ execs' = <<>>
    /\ callbackInterval' = 0
    /\ submitFailed' = FALSE
    /\ ReceiveTick
    /\ cycles' = cycles + 1
    /\ openConns' = NewClient(openConns, created)
    /\ IF created
       THEN /\ connOpen' = TRUE
            /\ pc' = "get"
            /\ backoffBeforeReset' = 0
            /\ UNCHANGED <<backoff, sleepLeft, failStreak, lastCycle>>
       ELSE /\ connOpen' = FALSE
            /\ RunPollError
    /\ UNCHANGED <<calls, lastInstructionID, lastResultData, exitCode, reqIds, agentVars, ctxCancelled, startVars, shutdownVars,
                   runResult>>

\* `case <-ticker.C` and poll, lines 106-112: the tick is received and the
\* client is created
PollConnect(created) ==
    /\ pc = "select"
    /\ tickPending \/ ~ctxCancelled
    /\ polled' = TRUE
    /\ cycleInterval' = pollInterval
    /\ cyclePeriod' = tickerPeriod
    /\ batch' = <<>>
    /\ idx' = 0
    /\ respInterval' = 0
    /\ submits' = <<>>
    /\ execs' = <<>>
    /\ callbackInterval' = 0
    /\ submitFailed' = FALSE
    /\ ReceiveTick
    /\ cycles' = cycles + 1
    /\ openConns' = NewClient(openConns, created)
    /\ IF created
       THEN /\ connOpen' = TRUE
            /\ pc' = "get"
            /\ backoffBeforeReset' = 0
            /\ UNCHANGED <<backoff, sleepLeft, failStreak, lastCycle>>
       ELSE /\ connOpen' = FALSE
            /\ RunPollError
    /\ UNCHANGED <<calls, lastInstructionID, lastResultData, exitCode, reqIds, agentVars, ctxCancelled, startVars, shutdownVars,
                   runResult>>

\* mutant: the response's interval is applied before the error is checked
PollGetAppliesIntervalFirst(d, ok, pis, b) ==
    /\ pc = "get"
    /\ ctxCancelled => ~ok
    /\ d \in IF ok THEN Durations ELSE FailDurations
    /\ Elapse(d)
    /\ pollInterval' = IF pis > 0 /\ pis # pollInterval
                       THEN pis ELSE pollInterval
    /\ IF ok
       THEN /\ respInterval' = pis
            /\ batch' = b
            /\ idx' = 1
            /\ pc' = "dispatch"
            /\ UNCHANGED <<connOpen, openConns, backoff, sleepLeft, failStreak,
                           lastCycle, backoffBeforeReset>>
       ELSE /\ connOpen' = FALSE
            /\ openConns' = ClientClose(openConns)
            /\ RunPollError
            /\ UNCHANGED <<respInterval, batch, idx>>
    /\ reqIds' = [reqIds EXCEPT !["GetInstructions"] = agentID]
    /\ UNCHANGED <<calls, lastInstructionID, lastResultData, exitCode, cycles, agentID, hostname, ipAddress, registry, ctxCancelled,
                   submits, execs, submitFailed,
                   callbackInterval, startVars, shutdownVars, polled,
                   cycleInterval, cyclePeriod, runResult>>

\* mutant: the client is closed at the end of poll only, so a failed
\* GetInstructions call returns with the connection open
PollGetLeaksOnError(d, ok, pis, b) ==
    /\ pc = "get"
    /\ ctxCancelled => ~ok
    /\ d \in IF ok THEN Durations ELSE FailDurations
    /\ Elapse(d)
    /\ IF ok
       THEN /\ respInterval' = pis
            /\ batch' = b
            /\ idx' = 1
            /\ pollInterval' = IF pis > 0 /\ pis # pollInterval
                               THEN pis ELSE pollInterval
            /\ pc' = "dispatch"
            /\ UNCHANGED <<connOpen, openConns, backoff, sleepLeft, failStreak,
                           lastCycle, backoffBeforeReset>>
       ELSE /\ UNCHANGED <<connOpen, openConns>>
            /\ RunPollError
            /\ UNCHANGED <<respInterval, batch, idx, pollInterval>>
    /\ reqIds' = [reqIds EXCEPT !["GetInstructions"] = agentID]
    /\ UNCHANGED <<calls, lastInstructionID, lastResultData, exitCode, cycles, agentID, hostname, ipAddress, registry, ctxCancelled,
                   submits, execs, submitFailed,
                   callbackInterval, startVars, shutdownVars, polled,
                   cycleInterval, cyclePeriod, runResult>>

\* poll, lines 114-132: the GetInstructions round trip takes d seconds; on
\* success the response's interval is applied and the range loop begins
PollGet(d, ok, pis, b) ==
    /\ pc = "get"
    /\ ctxCancelled => ~ok
    /\ d \in IF ok THEN Durations ELSE FailDurations
    /\ Elapse(d)
    /\ IF ok
       THEN /\ respInterval' = pis
            /\ batch' = b
            /\ idx' = 1
            /\ pollInterval' = IF pis > 0 /\ pis # pollInterval
                               THEN pis ELSE pollInterval
            /\ pc' = "dispatch"
            /\ UNCHANGED <<connOpen, openConns, backoff, sleepLeft, failStreak,
                           lastCycle, backoffBeforeReset>>
       ELSE /\ connOpen' = FALSE
            /\ openConns' = ClientClose(openConns)
            /\ RunPollError
            /\ UNCHANGED <<respInterval, batch, idx, pollInterval>>
    /\ reqIds' = [reqIds EXCEPT !["GetInstructions"] = agentID]
    /\ UNCHANGED <<calls, lastInstructionID, lastResultData, exitCode, cycles, agentID, hostname, ipAddress, registry, ctxCancelled,
                   submits, execs, submitFailed,
                   callbackInterval, startVars, shutdownVars, polled,
                   cycleInterval, cyclePeriod, runResult>>

\* submitResult, lines 191-201: the SubmitInstructionResult call succeeds,
\* fails, or the server answers Success = false; all three are only logged
SubmitOutcomes == {"ok", "rpc_err", "rejected"}

\* mutant: an instruction that fails ends the range loop
PollInstructionStopsOnFailure(enumerated, parses, submitted) ==
    /\ pc = "dispatch"
    /\ idx <= Len(batch)
    /\ submitted \in SubmitOutcomes
    /\ ctxCancelled => submitted = "rpc_err"
    /\ submitFailed' = (submitFailed \/ submitted # "ok")
    /\ LET ins == batch[idx]
           out == ProcessInstruction(registry, ins, enumerated, parses)
       IN  /\ submits' = submits \o out.requests
           /\ execs' = IF out.executed
                       THEN Append(execs, [id |-> ins.id, type |-> ins.type,
                                           err |-> out.handlerErr,
                                           after |-> Len(submits)])
                       ELSE execs
           /\ pollInterval' = IF out.interval > 0
                              THEN out.interval ELSE pollInterval
           /\ callbackInterval' = IF out.interval > 0
                                  THEN out.interval ELSE callbackInterval
           /\ idx' = IF ~out.executed \/ out.handlerErr # NoError
                     THEN Len(batch) + 1 ELSE idx + 1
    /\ UNCHANGED <<calls, lastInstructionID, lastResultData, exitCode, cycles, openConns, reqIds, pc, agentID, hostname, ipAddress, registry,
                   backoff, tickerVars, ctxCancelled,
                   connOpen, batch, respInterval, sleepLeft, startVars,
                   shutdownVars, polled, failStreak, lastCycle, cycleInterval,
                   cyclePeriod, runResult, backoffBeforeReset>>

\* mutant: the range loop walks the response from its last instruction
PollInstructionBackwards(enumerated, parses, submitted) ==
    /\ pc = "dispatch"
    /\ idx <= Len(batch)
    /\ submitted \in SubmitOutcomes
    /\ ctxCancelled => submitted = "rpc_err"
    /\ submitFailed' = (submitFailed \/ submitted # "ok")
    /\ LET ins == batch[Len(batch) + 1 - idx]
           out == ProcessInstruction(registry, ins, enumerated, parses)
       IN  /\ submits' = submits \o out.requests
           /\ execs' = IF out.executed
                       THEN Append(execs, [id |-> ins.id, type |-> ins.type,
                                           err |-> out.handlerErr,
                                           after |-> Len(submits)])
                       ELSE execs
           /\ pollInterval' = IF out.interval > 0
                              THEN out.interval ELSE pollInterval
           /\ callbackInterval' = IF out.interval > 0
                                  THEN out.interval ELSE callbackInterval
    /\ idx' = idx + 1
    /\ UNCHANGED <<calls, lastInstructionID, lastResultData, exitCode, cycles, openConns, reqIds, pc, agentID, hostname, ipAddress, registry,
                   backoff, tickerVars, ctxCancelled,
                   connOpen, batch, respInterval, sleepLeft, startVars,
                   shutdownVars, polled, failStreak, lastCycle, cycleInterval,
                   cyclePeriod, runResult, backoffBeforeReset>>

\* mutant: the range loop stops at the first instruction it meets after the
\* context was cancelled
PollInstructionStopsOnCancel(enumerated, parses, submitted) ==
    /\ pc = "dispatch"
    /\ idx <= Len(batch)
    /\ submitted \in SubmitOutcomes
    /\ ctxCancelled => submitted = "rpc_err"
    /\ submitFailed' = (submitFailed \/ (~ctxCancelled /\ submitted # "ok"))
    /\ LET ins == batch[idx]
           out == ProcessInstruction(registry, ins, enumerated, parses)
       IN  /\ submits' = IF ctxCancelled THEN submits
                          ELSE submits \o out.requests
           /\ execs' = IF out.executed /\ ~ctxCancelled
                       THEN Append(execs, [id |-> ins.id, type |-> ins.type,
                                           err |-> out.handlerErr,
                                           after |-> Len(submits)])
                       ELSE execs
           /\ pollInterval' = IF out.interval > 0 /\ ~ctxCancelled
                              THEN out.interval ELSE pollInterval
           /\ callbackInterval' = IF out.interval > 0 /\ ~ctxCancelled
                                  THEN out.interval ELSE callbackInterval
    /\ idx' = IF ctxCancelled THEN Len(batch) + 1 ELSE idx + 1
    /\ UNCHANGED <<calls, lastInstructionID, lastResultData, exitCode, cycles, openConns, reqIds, pc, agentID, hostname, ipAddress, registry,
                   backoff, tickerVars, ctxCancelled,
                   connOpen, batch, respInterval, sleepLeft, startVars,
                   shutdownVars, polled, failStreak, lastCycle, cycleInterval,
                   cyclePeriod, runResult, backoffBeforeReset>>

\* mutant: the first POLL_INTERVAL instruction of a batch settles the
\* interval, later ones are ignored
PollInstructionFirstWriterWins(enumerated, parses, submitted) ==
    /\ pc = "dispatch"
    /\ idx <= Len(batch)
    /\ submitted \in SubmitOutcomes
    /\ ctxCancelled => submitted = "rpc_err"
    /\ submitFailed' = (submitFailed \/ submitted # "ok")
    /\ LET ins == batch[idx]
           out == ProcessInstruction(registry, ins, enumerated, parses)
       IN  /\ submits' = submits \o out.requests
           /\ execs' = IF out.executed
                       THEN Append(execs, [id |-> ins.id, type |-> ins.type,
                                           err |-> out.handlerErr,
                                           after |-> Len(submits)])
                       ELSE execs
           /\ pollInterval' = IF out.interval > 0 /\ callbackInterval = 0
                              THEN out.interval ELSE pollInterval
           /\ callbackInterval' = IF out.interval > 0 /\ callbackInterval = 0
                                  THEN out.interval ELSE callbackInterval
    /\ idx' = idx + 1
    /\ UNCHANGED <<calls, lastInstructionID, lastResultData, exitCode, cycles, openConns, reqIds, pc, agentID, hostname, ipAddress, registry,
                   backoff, tickerVars, ctxCancelled,
                   connOpen, batch, respInterval, sleepLeft, startVars,
                   shutdownVars, polled, failStreak, lastCycle, cycleInterval,
                   cyclePeriod, runResult, backoffBeforeReset>>

\* poll, lines 135-171: one pass of the range loop
PollInstruction(enumerated, parses, submitted) ==
    /\ pc = "dispatch"
    /\ idx <= Len(batch)
    /\ submitted \in SubmitOutcomes
    /\ ctxCancelled => submitted = "rpc_err"
    /\ submitFailed' = (submitFailed \/ submitted # "ok")
    /\ LET ins == batch[idx]
           out == ProcessInstruction(registry, ins, enumerated, parses)
       IN  /\ submits' = submits \o out.requests
           /\ execs' = IF out.executed
                       THEN Append(execs, [id |-> ins.id, type |-> ins.type,
                                           err |-> out.handlerErr,
                                           after |-> Len(submits)])
                       ELSE execs
           /\ pollInterval' = IF out.interval > 0
                              THEN out.interval ELSE pollInterval
           /\ callbackInterval' = IF out.interval > 0
                                  THEN out.interval ELSE callbackInterval
    /\ idx' = idx + 1
    /\ UNCHANGED <<calls, lastInstructionID, lastResultData, exitCode, cycles, openConns, reqIds, pc, agentID, hostname, ipAddress, registry,
                   backoff, tickerVars, ctxCancelled,
                   connOpen, batch, respInterval, sleepLeft, startVars,
                   shutdownVars, polled, failStreak, lastCycle, cycleInterval,
                   cyclePeriod, runResult, backoffBeforeReset>>

\* mutant: poll returns an error when a result could not be submitted
PollReturnFailsOnSubmitError ==
    /\ pc = "dispatch"
    /\ idx > Len(batch)
    /\ connOpen' = FALSE
    /\ openConns' = ClientClose(openConns)
    /\ IF submitFailed
       THEN /\ RunPollError
            /\ cycles' = cycles
            /\ UNCHANGED tickerVars
       ELSE /\ RunPollOk
            /\ cycles' = cycles - 1
    /\ batch' = <<>>
    /\ idx' = 0
    /\ submits' = <<>>
    /\ execs' = <<>>
    /\ UNCHANGED <<calls, lastInstructionID, lastResultData, exitCode, reqIds, submitFailed, agentVars, ctxCancelled,
                   respInterval, callbackInterval,
                   startVars, shutdownVars, polled, cycleInterval, cyclePeriod,
                   runResult>>

\* poll, lines 173 and 112, then Run's success branch
PollReturn ==
    /\ pc = "dispatch"
    /\ idx > Len(batch)
    /\ connOpen' = FALSE
    /\ openConns' = ClientClose(openConns)
    /\ cycles' = cycles - 1
    /\ RunPollOk
    /\ batch' = <<>>
    /\ idx' = 0
    /\ submits' = <<>>
    /\ execs' = <<>>
    /\ UNCHANGED <<calls, lastInstructionID, lastResultData, exitCode, reqIds, submitFailed, agentVars, ctxCancelled,
                   respInterval, callbackInterval,
                   startVars, shutdownVars, polled, cycleInterval, cyclePeriod,
                   runResult>>

\* Run, line 94: time.Sleep returns
SleepEnd ==
    /\ pc = "sleep"
    /\ Elapse(sleepLeft)
    /\ sleepLeft' = 0
    /\ pc' = "select"
    /\ cycles' = cycles - 1
    /\ UNCHANGED <<calls, lastInstructionID, lastResultData, exitCode, openConns, reqIds, agentVars, backoff, ctxCancelled, connOpen,
                   cycleVars,
                   startVars, shutdownVars, polled, failStreak, lastCycle,
                   cycleInterval, cyclePeriod, runResult, backoffBeforeReset>>

UnregisterOutcomes == {"client_err", "rpc_err", "deadline_exceeded", "ok"}

\* context.WithTimeout(context.Background(), 10*time.Second)
FreshContext ==
    [parent |-> "Background", timeout |-> UnregisterTimeout, cancelled |-> FALSE]

\* Agent.Unregister under context c
Unregister(c, outcome) ==
    /\ outcome \in UnregisterOutcomes \cup {"not_registered"}
    /\ outcome = "not_registered" <=> agentID = <<>>
    /\ c.cancelled => outcome # "ok"
    /\ outcome = "deadline_exceeded" => c.timeout > 0
    /\ unregisterCalls' = unregisterCalls + 1
    /\ unregisterCtx' = c
    /\ unregisterResult' = outcome
    /\ reqIds' = IF outcome \in {"rpc_err", "deadline_exceeded", "ok"}
                 THEN [reqIds EXCEPT !["UnregisterAgent"] = agentID]
                 ELSE reqIds
    /\ LET created == outcome \in {"rpc_err", "deadline_exceeded", "ok"}
       IN  openConns' = DeferredClose(NewClient(openConns, created), created)

\* mutant: Unregister is called with Run's own, cancelled context
ShutdownUnderLoopContext(outcome) ==
    /\ pc = "select"
    /\ ctxCancelled
    /\ Unregister([parent |-> "ctx", timeout |-> 0, cancelled |-> ctxCancelled],
                  IF outcome = "ok" THEN "rpc_err" ELSE outcome)
    /\ pc' = "done"
    /\ runResult' = "ctx_err"
    /\ UNCHANGED <<calls, lastInstructionID, lastResultData, exitCode, cycles, agentVars, backoff, tickerVars, ctxCancelled, connOpen,
                   cycleVars, sleepLeft, startVars, polled, failStreak,
                   lastCycle, cycleInterval, cyclePeriod, backoffBeforeReset>>

\* mutant: the error of Unregister is returned in place of ctx.Err()
ShutdownReturnsUnregisterError(outcome) ==
    /\ pc = "select"
    /\ ctxCancelled
    /\ Unregister(FreshContext, outcome)
    /\ pc' = "done"
    /\ runResult' = IF outcome = "ok" THEN "ctx_err" ELSE outcome
    /\ UNCHANGED <<calls, lastInstructionID, lastResultData, exitCode, cycles, agentVars, backoff, tickerVars, ctxCancelled, connOpen,
                   cycleVars, sleepLeft, startVars, polled, failStreak,
                   lastCycle, cycleInterval, cyclePeriod, backoffBeforeReset>>

\* mutant: the select takes the ticker whenever a tick is ready
ShutdownAfterTicker(outcome) ==
    /\ pc = "select"
    /\ ctxCancelled
    /\ ~tickPending
    /\ Unregister(FreshContext, outcome)
    /\ pc' = "done"
    /\ runResult' = "ctx_err"
    /\ UNCHANGED <<calls, lastInstructionID, lastResultData, exitCode, cycles, agentVars, backoff, tickerVars, ctxCancelled, connOpen,
                   cycleVars, sleepLeft, startVars, polled, failStreak,
                   lastCycle, cycleInterval, cyclePeriod, backoffBeforeReset>>

\* Run, lines 78-86: `case <-ctx.Done()`
Shutdown(outcome) ==
    /\ pc = "select"
    /\ ctxCancelled
    /\ Unregister(FreshContext, outcome)
    /\ pc' = "done"
    /\ runResult' = "ctx_err"
    /\ UNCHANGED <<calls, lastInstructionID, lastResultData, exitCode, cycles, agentVars, backoff, tickerVars, ctxCancelled, connOpen,
                   cycleVars, sleepLeft, startVars, polled, failStreak,
                   lastCycle, cycleInterval, cyclePeriod, backoffBeforeReset>>

\* mutant: main fails on every error of Run
mainExitCodeOnAnyError(err) == IF err # "nil" THEN 1 ELSE 0

\* main, lines 159-163: the exit status for the error Run returned;
\* log.Fatalf exits with 1, and ctx.Err() of the signal context is
\* context.Canceled
mainExitCode(err) == IF err # "nil" /\ err # "ctx_err" THEN 1 ELSE 0

\* main, lines 159-164: Run has returned and the process exits
MainExit ==
    /\ pc = "done"
    /\ exitCode = Running
    /\ exitCode' = mainExitCode(runResult)
    /\ UNCHANGED <<calls, lastInstructionID, lastResultData, pc, agentVars, backoff, tickerVars, ctxCancelled,
                   connOpen, cycleVars, sleepLeft, startVars, shutdownVars,
                   polled, failStreak, lastCycle, cycleInterval, cyclePeriod,
                   runResult, backoffBeforeReset, reqIds, cycles, openConns>>

\* the steps of main and Run that do not depend on the server's answer to
\* a poll
Steps ==
    \/ MainExit
    \/ \E outcome \in RegisterOutcomes : RunRegister(outcome)
    \/ Cancel
    \/ \E enumerated \in BOOLEAN, parses \in BOOLEAN,
          submitted \in SubmitOutcomes :
          PollInstruction(enumerated, parses, submitted)
    \/ PollReturn
    \/ SleepEnd
    \/ \E outcome \in UnregisterOutcomes : Shutdown(outcome)

\* poll dials the server; limited: the server fails at most MaxFailStreak
\* cycles in a row
Connect(limited) ==
    \E created \in BOOLEAN :
        /\ created \/ ~limited \/ failStreak < MaxFailStreak
        /\ PollConnect(created)

\* poll asks for instructions and the server answers with one of batches,
\* or fails
Fetch(limited, batches) ==
    /\ pc = "get"
    /\ \E d \in Durations \cup FailDurations, ok \in BOOLEAN,
          pis \in RespIntervals, b \in batches :
          /\ ok \/ ~limited \/ failStreak < MaxFailStreak
          /\ PollGet(d, ok, pis, b)

\* a server with work to hand out and short outages
Next ==
    \/ Steps
    \/ Connect(TRUE)
    \/ Fetch(TRUE, Batches)

Spec == Init /\ [][Next]_vars

\* a server with little work and outages of any length
NextOutage ==
    \/ Steps
    \/ Connect(FALSE)
    \/ Fetch(FALSE, OutageBatches)

SpecOutage == Init /\ [][NextOutage]_vars

\* a server that retunes the poll interval several times in one batch
NextInterval ==
    \/ Steps
    \/ Connect(TRUE)
    \/ Fetch(TRUE, IntervalBatches)

SpecInterval == Init /\ [][NextInterval]_vars

\* the same server, with the scheduling the loop relies on: an RPC, a
\* handler and a sleep in progress return, and a select whose two cases are
\* ready again and again does not take the ticker every time
Fairness ==
    /\ WF_vars(Fetch(FALSE, OutageBatches))
    /\ WF_vars(\E enumerated \in BOOLEAN, parses \in BOOLEAN,
                  submitted \in SubmitOutcomes :
                  PollInstruction(enumerated, parses, submitted))
    /\ WF_vars(PollReturn)
    /\ WF_vars(SleepEnd)
    /\ SF_vars(\E outcome \in UnregisterOutcomes : Shutdown(outcome))

SpecLive == Init /\ [][NextOutage]_vars /\ Fairness

\* ------------------------------------------------- a Backoff on its own
\* New, the fields other than the registry, and no Run in progress
Idle ==
    /\ agentID = <<>>
    /\ hostname = <<>>
    /\ ipAddress = <<>>
    /\ pollInterval = DefaultPollInterval
    /\ tickerPeriod = 0
    /\ tickIn = 0
    /\ tickPending = FALSE
    /\ ctxCancelled = FALSE
    /\ connOpen = FALSE
    /\ batch = <<>>
    /\ idx = 0
    /\ respInterval = 0
    /\ sleepLeft = 0
    /\ submits = <<>>
    /\ execs = <<>>
    /\ registerCalls = 0
    /\ unregisterCalls = 0
    /\ unregisterCtx = NoCtx
    /\ unregisterResult = "none"
    /\ polled = FALSE
    /\ failStreak = 0
    /\ lastCycle = "none"
    /\ cycleInterval = 0
    /\ cyclePeriod = 0
    /\ runResult = "none"
    /\ registered = "none"
    /\ callbackInterval = 0
    /\ backoffBeforeReset = 0
    /\ submitFailed = FALSE
    /\ reqIds = NoRequests
    /\ cycles = 0
    /\ openConns = 0
    /\ exitCode = Running
    /\ lastInstructionID = 0
    /\ lastResultData = NoData

\* New: an agent on which nothing has been called
NewAgent ==
    /\ registry = AgentRegistry
    /\ Idle

\* a fresh Backoff; the agent is not running
InitBackoff ==
    /\ pc = "backoff"
    /\ backoff = NewBackoff
    /\ calls = <<>>
    /\ NewAgent

\* everything but the Backoff and the record of its calls
loopVars == <<pc, agentVars, tickerVars, ctxCancelled, connOpen, cycleVars,
              sleepLeft, startVars, shutdownVars, polled, failStreak,
              lastCycle, cycleInterval, cyclePeriod, runResult,
              backoffBeforeReset, reqIds, cycles, openConns, exitCode,
              lastInstructionID, lastResultData>>

\* one call on the Backoff: what it returned (0: nothing) and the delay
\* kept before and after it
Call(op, ret, after) ==
    /\ pc = "backoff"
    /\ Len(calls) < MaxCalls
    /\ backoff' = after
    /\ calls' = Append(calls, [op |-> op, ret |-> ret,
                               before |-> backoff, after |-> after])
    /\ UNCHANGED loopVars

CallNext == Call("Next", BackoffNext(backoff).ret, BackoffNext(backoff).current)

CallCurrent ==
    Call("Current", BackoffCurrent(backoff).ret, BackoffCurrent(backoff).current)

CallReset == Call("Reset", 0, BackoffReset)

NextBackoff == CallNext \/ CallCurrent \/ CallReset

SpecBackoff == InitBackoff /\ [][NextBackoff]_vars

\* ------------------------------------- Register and Unregister on their own
\* a caller other than Run uses the two exported methods; it does not
\* register again an agent whose registration succeeded
InitApi ==
    /\ pc = "api"
    /\ backoff = 0
    /\ calls = <<>>
    /\ NewAgent

\* the contexts the caller passes
ApiContexts ==
    {FreshContext,
     [parent |-> "Background", timeout |-> 0, cancelled |-> FALSE],
     [parent |-> "ctx", timeout |-> 0, cancelled |-> TRUE]}

ApiRegister(outcome) ==
    /\ pc = "api"
    /\ registered # "ok"
    /\ registerCalls < MaxApiCalls
    /\ Register(outcome)
    /\ UNCHANGED <<calls, lastInstructionID, lastResultData, exitCode, cycles, pc, pollInterval, registry, backoff, tickerVars,
                   ctxCancelled, connOpen, cycleVars, sleepLeft, shutdownVars,
                   polled, failStreak, lastCycle, cycleInterval, cyclePeriod,
                   runResult, backoffBeforeReset>>

ApiUnregister(c, outcome) ==
    /\ pc = "api"
    /\ unregisterCalls < MaxApiCalls
    /\ Unregister(c, outcome)
    /\ UNCHANGED <<calls, lastInstructionID, lastResultData, exitCode, cycles, pc, agentVars, backoff, tickerVars, ctxCancelled,
                   connOpen, cycleVars, sleepLeft, startVars, polled,
                   failStreak, lastCycle, cycleInterval, cyclePeriod, runResult,
                   backoffBeforeReset>>

NextApi ==
    \/ \E outcome \in RegisterOutcomes : ApiRegister(outcome)
    \/ \E c \in ApiContexts, outcome \in UnregisterOutcomes \cup {"not_registered"} :
          ApiUnregister(c, outcome)

SpecApi == InitApi /\ [][NextApi]_vars

\* ------------------------------------------------- a Registry on its own
\* NewRegistry, as the registry's tests build it
InitRegistry ==
    /\ pc = "registry"
    /\ registry = NewRegistry
    /\ backoff = 0
    /\ calls = <<>>
    /\ Idle

\* the instruction types the tests register and ask for
RegistryTypes == {HEALTH_CHECK, POLL_INTERVAL}

\* the instructions the tests execute: nil, or one of a type
RegistryInstructions ==
    {NilInstruction} \cup {Instruction(1, t, 0) : t \in RegistryTypes}

\* everything but the registry and the record of its calls
registryFrame == <<pc, agentID, hostname, ipAddress, pollInterval, backoff,
                   tickerVars, ctxCancelled, connOpen, cycleVars, sleepLeft,
                   startVars, shutdownVars, polled, failStreak, lastCycle,
                   cycleInterval, cyclePeriod, runResult, backoffBeforeReset,
                   reqIds, cycles, openConns, exitCode,
              lastInstructionID, lastResultData>>

\* one call on the registry: the type and handler it names, whether its
\* context was cancelled, what it returned, and the handlers map before
\* and after it
RegistryCall(op, t, h, ctxDone, ret, after) ==
    /\ pc = "registry"
    /\ Len(calls) < MaxRegistryCalls
    /\ registry' = after
    /\ calls' = Append(calls, [op |-> op, type |-> t, handler |-> h,
                               ctxDone |-> ctxDone, ret |-> ret,
                               before |-> registry, after |-> after])
    /\ UNCHANGED registryFrame

CallRegister(t, h) ==
    RegistryCall("Register", t, h, FALSE, NoData, RegistryRegister(registry, t, h))

CallExecute(ins, ctxDone) ==
    RegistryCall("Execute", ins.type, "none", ctxDone,
                 RegistryExecute(registry, ins, TRUE), registry)

CallHasHandler(t) ==
    RegistryCall("HasHandler", t, "none", FALSE,
                 [has |-> HasHandler(registry, t)], registry)

NextRegistry ==
    \/ \E t \in RegistryTypes, h \in MockHandlers : CallRegister(t, h)
    \/ \E ins \in RegistryInstructions, ctxDone \in BOOLEAN :
          CallExecute(ins, ctxDone)
    \/ \E t \in RegistryTypes : CallHasHandler(t)

SpecRegistry == InitRegistry /\ [][NextRegistry]_vars

\* --------------------------------------- the handlers of a new agent
\* New, and nothing called on the agent
InitHandlers ==
    /\ pc = "handlers"
    /\ backoff = 0
    /\ calls = <<>>
    /\ NewAgent

\* interval_seconds of the payloads the handlers are given: unparseable,
\* absent (0), around both ends of the valid range and inside it
HandlerPayloads == {Malformed, 0, 9, 10, 120, 300, 301}

PollIntervalInputs ==
    {NilInstruction} \cup {Instruction(1, POLL_INTERVAL, p) : p \in HandlerPayloads}

HealthCheckInputs ==
    {NilInstruction} \cup {Instruction(1, HEALTH_CHECK, p) : p \in {Malformed, 0, 120}}

\* instructions executed through the agent's registry
AgentRegistryInputs ==
    {Instruction(1, POLL_INTERVAL, 300), Instruction(1, HEALTH_CHECK, 0),
     Instruction(1, COLLECT_HARDWARE, 0)}

\* intervals handed to updatePollInterval directly
UpdateIntervals == {5, 120}

\* Agent.updatePollInterval: the agent's poll interval after the call
updatePollInterval(interval) == interval

\* the agent's fields, with poll interval p
AgentState(p) ==
    [agentID |-> agentID, hostname |-> hostname, ipAddress |-> ipAddress,
     pollInterval |-> p, registry |-> registry]

\* everything but the poll interval and the record of the calls
handlerFrame == <<pc, agentID, hostname, ipAddress, registry, backoff,
                  tickerVars, ctxCancelled, connOpen, cycleVars, sleepLeft,
                  startVars, shutdownVars, polled, failStreak, lastCycle,
                  cycleInterval, cyclePeriod, runResult, backoffBeforeReset,
                  reqIds, cycles, openConns, exitCode,
              lastInstructionID, lastResultData>>

\* one call of a handler of the agent: its instruction, whether its
\* context was cancelled, what it returned, and the agent before and after
\* it; the callback of the poll-interval handler is updatePollInterval
HandlerCall(op, ins, ctxDone, ret) ==
    /\ pc = "handlers"
    /\ Len(calls) < MaxHandlerCalls
    /\ pollInterval' = IF ret.interval > 0
                       THEN updatePollInterval(ret.interval)
                       ELSE pollInterval
    /\ calls' = Append(calls, [op |-> op, ins |-> ins, ctxDone |-> ctxDone,
                               ret |-> ret,
                               before |-> AgentState(pollInterval),
                               after |-> AgentState(pollInterval')])
    /\ UNCHANGED handlerFrame

CallPollInterval(ins, ctxDone) ==
    HandlerCall("PollInterval", ins, ctxDone, PollIntervalExecute(ins))

CallHealthCheck(ins, ctxDone) ==
    HandlerCall("HealthCheck", ins, ctxDone, HealthCheckExecute(ins))

CallAgentRegistry(ins, enumerated) ==
    HandlerCall("Registry", ins, FALSE, RegistryExecute(registry, ins, enumerated))

\* updatePollInterval called as the test calls it
CallUpdatePollInterval(interval) ==
    HandlerCall("updatePollInterval", NilInstruction, FALSE,
                [err |-> NoError, data |-> NoData, interval |-> interval])

NextHandlers ==
    \/ \E ins \in PollIntervalInputs, ctxDone \in BOOLEAN :
          CallPollInterval(ins, ctxDone)
    \/ \E ins \in HealthCheckInputs, ctxDone \in BOOLEAN :
          CallHealthCheck(ins, ctxDone)
    \/ \E ins \in AgentRegistryInputs, enumerated \in BOOLEAN :
          CallAgentRegistry(ins, enumerated)
    \/ \E interval \in UpdateIntervals : CallUpdatePollInterval(interval)

SpecHandlers == InitHandlers /\ [][NextHandlers]_vars

\* ------------------------------------------------ GenerateUUID on its own
InitUUID ==
    /\ pc = "uuid"
    /\ backoff = 0
    /\ calls = <<>>
    /\ NewAgent

\* the characters of a hostname or an address: the separator GenerateUUID
\* writes between the two, and one other
Chars == {"a", ":"}

RECURSIVE StringsOfLen(_)
StringsOfLen(n) ==
    IF n = 0 THEN {<<>>}
    ELSE {Append(w, c) : w \in StringsOfLen(n - 1), c \in Chars}

\* the strings GenerateUUID is given
Names == UNION {StringsOfLen(n) : n \in 0..MaxNameLen}

\* one call of GenerateUUID: its arguments and the identifier returned
CallGenerateUUID(hostname_, ip) ==
    /\ pc = "uuid"
    /\ Len(calls) < MaxUuidCalls
    /\ calls' = Append(calls, [hostname |-> hostname_, ip |-> ip,
                               uuid |-> GenerateUUID(hostname_, ip)])
    /\ UNCHANGED <<backoff, loopVars>>

NextUUID == \E hostname_ \in Names, ip \in Names : CallGenerateUUID(hostname_, ip)

SpecUUID == InitUUID /\ [][NextUUID]_vars

\* ------------------------------------------- the hardware handler on its own
InitHardware ==
    /\ pc = "hardware"
    /\ backoff = 0
    /\ calls = <<>>
    /\ NewAgent

\* what collectNICInfo reads of one device
Attributes ==
    {"device_name", "firmware_version", "part_number", "serial_number",
     "psid", "ports"}

\* the reads that fail on one device: none, any single one, or all of them
ReadFailures == {{}} \cup {{a} : a \in Attributes} \cup {Attributes}

\* getDeviceNameFromPCI, getFirmwareVersion, getPartNumber, getSerialNumber,
\* getPSID: the value read of device pciAddr, the empty string on a failure
ReadAttribute(pciAddr, attr, failed) ==
    IF attr \in failed THEN <<>> ELSE <<attr, pciAddr>>

\* collectPorts: one port per interface of the device, or the error of
\* os.ReadDir
collectPorts(pciAddr, failed) ==
    IF "ports" \in failed
    THEN [ports |-> <<>>, err |-> <<"open net: no such file or directory">>]
    ELSE [ports |-> <<[Number |-> 1, PCIAddress |-> pciAddr,
                       InterfaceName |-> <<"interface", pciAddr>>]>>,
          err |-> NoError]

\* mutant: a device whose name cannot be read is given up
collectNICInfoNeedsName(pciAddr, failed) ==
    LET p == collectPorts(pciAddr, failed)
        ports == IF p.err = NoError /\ Len(p.ports) > 0 THEN p.ports ELSE <<>>
    IN  [nic |-> [PCIAddress |-> pciAddr,
                  DeviceName |-> ReadAttribute(pciAddr, "device_name", failed),
                  FirmwareVersion |->
                      ReadAttribute(pciAddr, "firmware_version", failed),
                  PartNumber |-> ReadAttribute(pciAddr, "part_number", failed),
                  SerialNumber |->
                      ReadAttribute(pciAddr, "serial_number", failed),
                  PSID |-> ReadAttribute(pciAddr, "psid", failed),
                  Ports |-> ports,
                  PortCount |-> Len(ports)],
         err |-> IF "device_name" \in failed
                 THEN <<"no device found">> ELSE NoError]

\* collectNICInfo: every failed read leaves its field empty; the error
\* returned is always nil
collectNICInfo(pciAddr, failed) ==
    LET p == collectPorts(pciAddr, failed)
        ports == IF p.err = NoError /\ Len(p.ports) > 0 THEN p.ports ELSE <<>>
    IN  [nic |-> [PCIAddress |-> pciAddr,
                  DeviceName |-> ReadAttribute(pciAddr, "device_name", failed),
                  FirmwareVersion |->
                      ReadAttribute(pciAddr, "firmware_version", failed),
                  PartNumber |-> ReadAttribute(pciAddr, "part_number", failed),
                  SerialNumber |->
                      ReadAttribute(pciAddr, "serial_number", failed),
                  PSID |-> ReadAttribute(pciAddr, "psid", failed),
                  Ports |-> ports,
                  PortCount |-> Len(ports)],
         err |-> NoError]

\* the loop of collectMellanoxNICs over the first n devices lspci listed: a
\* device whose collection returns an error is left out
RECURSIVE collectedNICs(_, _)
collectedNICs(n, failures) ==
    IF n = 0 THEN <<>>
    ELSE LET info == collectNICInfo(n, failures[n])
         IN  IF info.err # NoError
             THEN collectedNICs(n - 1, failures)
             ELSE Append(collectedNICs(n - 1, failures), info.nic)

\* collectMellanoxNICs; lspciOk: findMellanoxPCIDevices ran lspci; the
\* devices found have the PCI addresses 1..n
collectMellanoxNICs(lspciOk, n, failures) ==
    IF ~lspciOk
    THEN [nics |-> <<>>,
          err |-> <<"failed to find Mellanox devices:", "lspci command failed">>]
    ELSE [nics |-> collectedNICs(n, failures), err |-> NoError]

\* convertToProtoNICs: the "ports" member is written only for a device that
\* has ports
convertToProtoNICs(nics) ==
    [i \in 1..Len(nics) |->
        LET nic == nics[i]
            base == [device_name |-> nic.DeviceName,
                     pci_address |-> nic.PCIAddress,
                     part_number |-> nic.PartNumber,
                     serial_number |-> nic.SerialNumber,
                     firmware_version |-> nic.FirmwareVersion,
                     port_count |-> nic.PortCount,
                     psid |-> nic.PSID]
        IN  IF Len(nic.Ports) > 0
            THEN [k \in DOMAIN base \cup {"ports"} |->
                     IF k = "ports"
                     THEN [j \in 1..Len(nic.Ports) |->
                              [number |-> nic.Ports[j].Number,
                               pci_address |-> nic.Ports[j].PCIAddress,
                               interface_name |-> nic.Ports[j].InterfaceName]]
                     ELSE base[k]]
            ELSE base]

\* CollectHardwareHandler.Execute with the devices it finds
CollectHardwareHandlerExecute(ins, lspciOk, n, failures) ==
    IF ins = NilInstruction
    THEN [err |-> NilInstructionError, data |-> NoData]
    ELSE LET found == collectMellanoxNICs(lspciOk, n, failures)
         IN  IF found.err # NoError
             THEN [err |-> <<"failed to collect Mellanox NICs:">> \o found.err,
                   data |-> NoData]
             ELSE [err |-> NoError,
                   data |-> [instruction_type |->
                                 "INSTRUCTION_TYPE_COLLECT_HARDWARE",
                             network_interfaces |->
                                 convertToProtoNICs(found.nics)]]

\* one call of Execute: the instruction, the devices of the host and the
\* reads that fail on each, and what was returned
CallCollectHardware(ins, lspciOk, n, failures) ==
    /\ pc = "hardware"
    /\ calls' = <<[op |-> "Execute", ins |-> ins, lspciOk |-> lspciOk,
                   devices |-> n, failures |-> failures,
                   ret |-> CollectHardwareHandlerExecute(ins, lspciOk, n,
                                                         failures)]>>
    /\ UNCHANGED <<backoff, loopVars>>

NextHardware ==
    \E ins \in {NilInstruction, Instruction(1, COLLECT_HARDWARE, 0)},
       lspciOk \in BOOLEAN, n \in 0..MaxDevices :
       \E failures \in [1..n -> ReadFailures] :
          CallCollectHardware(ins, lspciOk, n, failures)

SpecHardware == InitHardware /\ [][NextHardware]_vars

\* ------------------------------- poll with the piggybacked acknowledgment
\* src/unnamed/part_004: the result of the last instruction processed rides
\* on the next GetInstructions request.  poll is called again and again on
\* an agent whose registration succeeded.
InitPiggyback ==
    /\ pc = "piggyback"
    /\ registry = AgentRegistry
    /\ backoff = 0
    /\ calls = <<>>
    /\ agentID = GenerateUUID(GetHostname, GetPrimaryIPAddress)
    /\ hostname = GetHostname
    /\ ipAddress = GetPrimaryIPAddress
    /\ pollInterval = DefaultPollInterval
    /\ tickerPeriod = 0
    /\ tickIn = 0
    /\ tickPending = FALSE
    /\ ctxCancelled = FALSE
    /\ connOpen = FALSE
    /\ batch = <<>>
    /\ idx = 0
    /\ respInterval = 0
    /\ sleepLeft = 0
    /\ submits = <<>>
    /\ execs = <<>>
    /\ registerCalls = 1
    /\ unregisterCalls = 0
    /\ unregisterCtx = NoCtx
    /\ unregisterResult = "none"
    /\ polled = FALSE
    /\ failStreak = 0
    /\ lastCycle = "none"
    /\ cycleInterval = 0
    /\ cyclePeriod = 0
    /\ runResult = "none"
    /\ registered = "ok"
    /\ callbackInterval = 0
    /\ backoffBeforeReset = 0
    /\ submitFailed = FALSE
    /\ reqIds = [NoRequests EXCEPT !["RegisterAgent"] =
                     GenerateUUID(GetHostname, GetPrimaryIPAddress)]
    /\ cycles = 0
    /\ openConns = 0
    /\ exitCode = Running
    /\ lastInstructionID = 0
    /\ lastResultData = NoData

\* the instructions the n-th response may list at position i: ids are not
\* reused across responses
PiggybackInstructionsAt(base, i) ==
    {Instruction(base + i, POLL_INTERVAL, p) : p \in {9, 300}}
    \cup {Instruction(base + i, t, 0) : t \in {HEALTH_CHECK, UNSPECIFIED}}

RECURSIVE PiggybackBatchesOfLen(_, _)
PiggybackBatchesOfLen(base, n) ==
    IF n = 0 THEN {<<>>}
    ELSE {Append(b, ins) : b \in PiggybackBatchesOfLen(base, n - 1),
                           ins \in PiggybackInstructionsAt(base, n)}

\* resp.Instructions
PiggybackBatches(base) ==
    UNION {PiggybackBatchesOfLen(base, n) : n \in 0..MaxPiggybackBatch}

\* responses received so far
Responses == Cardinality({j \in 1..Len(calls) : calls[j].ok})

\* everything poll and its record leave alone
piggybackFrame == <<agentID, hostname, ipAddress, registry, backoff,
                    tickerVars, ctxCancelled, sleepLeft, submits,
                    callbackInterval, submitFailed, startVars, shutdownVars,
                    polled, failStreak, lastCycle, cycleInterval, cyclePeriod,
                    runResult, backoffBeforeReset, cycles, exitCode>>

\* what the last instruction executed in the latest answered cycle left
\* behind (0 and the empty string: that cycle executed none)
LastProcessed ==
    IF execs = <<>> THEN [id |-> 0, data |-> NoData]
    ELSE [id |-> execs[Len(execs)].id, data |-> execs[Len(execs)].data]

\* poll, lines 108-139: dial, send the request with the stored
\* acknowledgment, apply the response's interval, clear the stored data
PiggybackGet(created, ok, pis, b) ==
    /\ calls' = Append(calls,
                       [op |-> "GetInstructions", sent |-> created,
                        ok |-> created /\ ok,
                        lastInstructionId |-> lastInstructionID,
                        resultData |-> lastResultData,
                        processed |-> LastProcessed])
    /\ reqIds' = IF created
                 THEN [reqIds EXCEPT !["GetInstructions"] = agentID]
                 ELSE reqIds
    /\ IF created /\ ok
       THEN /\ respInterval' = pis
            /\ pollInterval' = IF pis > 0 /\ pis # pollInterval
                               THEN pis ELSE pollInterval
            /\ lastResultData' = NoData
            /\ batch' = b
            /\ idx' = 1
            /\ execs' = <<>>
            /\ connOpen' = TRUE
            /\ openConns' = NewClient(openConns, TRUE)
            /\ pc' = "piggyback_loop"
       ELSE UNCHANGED <<respInterval, pollInterval, lastResultData, batch,
                        idx, execs, connOpen, openConns, pc>>
    /\ UNCHANGED <<lastInstructionID, piggybackFrame>>

\* a server that answers, fails, or cannot be dialled
PiggybackPoll ==
    /\ pc = "piggyback"
    /\ Len(calls) < MaxPiggybackPolls
    /\ \E created \in BOOLEAN, ok \in BOOLEAN, pis \in RespIntervals,
          b \in PiggybackBatches(MaxPiggybackBatch * Responses) :
          PiggybackGet(created, ok, pis, b)

\* poll, lines 142-176: one pass of the range loop
PiggybackInstruction(enumerated) ==
    /\ pc = "piggyback_loop"
    /\ idx <= Len(batch)
    /\ LET ins == batch[idx]
           out == RegistryExecute(registry, ins, enumerated)
           errorJSON == [status |-> "error", error |-> out.err]
       IN  IF ~HasHandler(registry, ins.type)
           THEN UNCHANGED <<lastInstructionID, lastResultData, execs,
                            pollInterval>>
           ELSE /\ lastInstructionID' = ins.id
                /\ lastResultData' = IF out.err # NoError
                                     THEN errorJSON ELSE out.data
                /\ execs' = Append(execs,
                                   [id |-> ins.id, type |-> ins.type,
                                    err |-> out.err,
                                    data |-> IF out.err # NoError
                                             THEN errorJSON ELSE out.data])
                /\ pollInterval' = IF out.interval > 0
                                   THEN out.interval ELSE pollInterval
    /\ idx' = idx + 1
    /\ UNCHANGED <<calls, reqIds, pc, batch, respInterval, connOpen,
                   openConns, piggybackFrame>>

\* poll, line 178 and the deferred Close of line 114
PiggybackReturn ==
    /\ pc = "piggyback_loop"
    /\ idx > Len(batch)
    /\ pc' = "piggyback"
    /\ connOpen' = FALSE
    /\ openConns' = ClientClose(openConns)
    /\ UNCHANGED <<calls, reqIds, lastInstructionID, lastResultData, batch,
                   idx, execs, respInterval, pollInterval, piggybackFrame>>

NextPiggyback ==
    \/ PiggybackPoll
    \/ \E enumerated \in BOOLEAN : PiggybackInstruction(enumerated)
    \/ PiggybackReturn

SpecPiggyback == InitPiggyback /\ [][NextPiggyback]_vars

\* ==================================================================
\* Properties
\* ==================================================================
IsSuccess(result) ==
    \/ result.kind = "HardwareCollection"
    \/ result.kind = "HealthCheck" /\ result.healthy

IsFailure(result) == result.kind = "HealthCheck" /\ ~result.healthy

\* the instructions of the current batch that poll's loop has passed
Processed == 1..(idx - 1)

SubmitsFor(id) == {j \in 1..Len(submits) : submits[j].instructionId = id}

ExecsFor(id) == {j \in 1..Len(execs) : execs[j].id = id}

CycleEnded == pc = "dispatch" /\ idx > Len(batch)

\* C1: in a successful poll cycle every instruction the loop has passed has
\* exactly one SubmitInstructionResult request carrying its id, whether its
\* handler succeeded, failed or is missing; at the end of the cycle that is
\* every instruction of the response, and no other request was sent.
C1_ExactlyOneSubmit ==
    pc = "dispatch" =>
        /\ idx <= Len(batch) + 1
        /\ Len(submits) = idx - 1
        /\ \A i \in Processed : Cardinality(SubmitsFor(batch[i].id)) = 1

C1_Witness ==
    /\ CycleEnded
    /\ Len(batch) = 3
    /\ batch[1].type = UNSPECIFIED
    /\ batch[2].type = POLL_INTERVAL /\ batch[2].payload = 9
    /\ batch[3].type = HEALTH_CHECK
    /\ \A i \in 1..3 : Cardinality(SubmitsFor(batch[i].id)) = 1

\* C2: dispatch isolation.  An instruction without a handler, or whose
\* handler fails, does not stop the loop: every instruction the loop has
\* passed was reported in delivery order, was executed when its type has a
\* handler, is reported failed when it has none, and its request is one the
\* instruction yields when it is the only one of its batch.
C2_DispatchIsolation ==
    pc = "dispatch" =>
        \A i \in Processed :
            /\ i <= Len(submits)
            /\ submits[i].instructionId = batch[i].id
            /\ HasHandler(registry, batch[i].type) <=> ExecsFor(batch[i].id) # {}
            /\ ~HasHandler(registry, batch[i].type) => IsFailure(submits[i].result)
            /\ \E e \in BOOLEAN, p \in BOOLEAN :
                   <<submits[i]>> = ProcessInstruction(registry, batch[i], e, p).requests

C2_Witness ==
    /\ CycleEnded
    /\ Len(batch) = 3
    /\ batch[1].type = HEALTH_CHECK
    /\ batch[2].type = UNSPECIFIED
    /\ batch[3].type = COLLECT_HARDWARE
    /\ Len(submits) = 3
    /\ IsSuccess(submits[1].result)
    /\ IsFailure(submits[2].result)
    /\ IsSuccess(submits[3].result)

\* C3 (as claimed): the result submitted for an instruction is a success
\* result exactly when a handler is registered for its type and that handler
\* returned without error.
C3_ResultReflectsHandler ==
    pc = "dispatch" =>
        \A i \in 1..Len(submits) :
            IsSuccess(submits[i].result) <=>
                /\ HasHandler(registry, batch[i].type)
                /\ \E j \in ExecsFor(batch[i].id) : execs[j].err = NoError

\* C4: Run calls Register exactly once; when Register fails Run has returned
\* the registration error, no poll cycle was started and Unregister was not
\* called.
C4_RegistrationOnceFatal ==
    /\ registerCalls <= 1
    /\ pc # "start" => registerCalls = 1
    /\ registered = "failed" =>
           /\ pc = "done"
           /\ runResult = "registration_failed"
           /\ ~polled
           /\ unregisterCalls = 0
    /\ runResult = "registration_failed" => registered = "failed"

C4_Witness ==
    /\ registered = "failed"
    /\ agentID # <<>>
    /\ pc = "done"
    /\ runResult = "registration_failed"

\* C5: the k-th consecutive failed poll cycle makes the loop sleep
\* min(2^(k-1), 60) seconds, and no cycle is in progress while a sleep has
\* time left.
C5_BackoffCoupling ==
    /\ pc = "sleep" =>
           /\ failStreak >= 1
           /\ sleepLeft = Min(Pow2(failStreak - 1), 60)
    /\ pc # "sleep" => sleepLeft = 0

C5_Witness ==
    /\ pc = "sleep"
    /\ failStreak = 8
    /\ sleepLeft = 60

\* C6: a successful cycle leaves the backoff at its initial delay, and the
\* first failed cycle after a successful one sleeps exactly 1 second.
C6_SuccessResetsBackoff ==
    /\ lastCycle = "ok" => backoff = 1
    /\ pc = "sleep" /\ failStreak = 1 => sleepLeft = 1 /\ backoff = 2

C6_Witness ==
    /\ pc = "sleep"
    /\ failStreak = 1
    /\ backoffBeforeReset = 60
    /\ sleepLeft = 1

\* C7: right after a failed poll cycle no handler was executed, no result
\* was submitted, and the poll interval and the ticker period are the ones
\* the cycle started with.
C7_FailedCycleChangesNothing ==
    pc = "sleep" =>
        /\ execs = <<>>
        /\ submits = <<>>
        /\ batch = <<>>
        /\ pollInterval = cycleInterval
        /\ tickerPeriod = cyclePeriod
        /\ ~connOpen

C7_Witness ==
    /\ pc = "sleep"
    /\ failStreak = 2
    /\ polled
    /\ cycleInterval = 5
    /\ pollInterval = 5
    /\ tickerPeriod = 5

\* C8 (as claimed): after a successful cycle whose response carried a
\* pollIntervalSeconds different from the interval the cycle started with,
\* the poll interval is that value and the ticker is armed with it.
C8_IntervalFollowsResponse ==
    (pc = "select" /\ lastCycle = "ok"
        /\ respInterval > 0 /\ respInterval # cycleInterval) =>
        /\ pollInterval = respInterval
        /\ tickerPeriod = respInterval
        /\ tickIn = respInterval
        /\ ~tickPending

\* C8 (amended): the same when no POLL_INTERVAL instruction of the batch was
\* accepted by its handler; the ticker is always armed with the final poll
\* interval, counted from the end of the cycle.
C8_IntervalRearmed ==
    (pc = "select" /\ lastCycle = "ok") =>
        /\ tickerPeriod = pollInterval
        /\ tickIn = pollInterval
        /\ ~tickPending
        /\ (respInterval > 0 /\ respInterval # cycleInterval
               /\ callbackInterval = 0) => pollInterval = respInterval
        /\ callbackInterval # 0 => pollInterval = callbackInterval

C8_Witness ==
    /\ pc = "select"
    /\ lastCycle = "ok"
    /\ cycleInterval = 300
    /\ cyclePeriod = 300
    /\ respInterval = 5
    /\ callbackInterval = 0
    /\ pollInterval = 5
    /\ tickIn = 5
    /\ ~tickPending

\* C9 (as claimed): the poll interval is always within [10, 300] seconds.
C9_IntervalInRange ==
    pollInterval >= 10 /\ pollInterval <= 300

\* C10: when Run has returned on cancellation it has called Unregister
\* exactly once, under a context derived from Background with a 10 second
\* timeout that was not cancelled, although Run's own context was; Unregister
\* is called on no other path.
C10_UnregisterFreshContext ==
    /\ unregisterCalls <= 1
    /\ (unregisterCalls = 1) <=> (runResult = "ctx_err")
    /\ runResult = "ctx_err" =>
           /\ ctxCancelled
           /\ unregisterCtx.parent = "Background"
           /\ unregisterCtx.timeout = 10
           /\ ~unregisterCtx.cancelled

C10_Witness ==
    /\ runResult = "ctx_err"
    /\ pc = "done"
    /\ polled
    /\ ctxCancelled
    /\ unregisterCalls = 1
    /\ ~unregisterCtx.cancelled

\* C11: whatever Unregister returned on shutdown (success, a connection or
\* RPC error, or the expiry of its 10 second deadline), Run has returned
\* ctx.Err() of its cancelled context and nothing else.
C11_ShutdownReturnsCause ==
    unregisterResult # "none" =>
        /\ unregisterResult \in UnregisterOutcomes
        /\ pc = "done"
        /\ ctxCancelled
        /\ runResult = "ctx_err"

C11_Witness ==
    /\ pc = "done"
    /\ polled
    /\ unregisterResult = "deadline_exceeded"
    /\ reqIds["UnregisterAgent"] = agentID
    /\ runResult = "ctx_err"

\* C12: once the context is cancelled while the loop is polling (waiting in
\* the select, in an RPC, in the range loop or in a backoff sleep), Run
\* eventually returns.
Polling == pc \in {"select", "get", "dispatch", "sleep"}

C12_ShutdownCompletes ==
    (ctxCancelled /\ Polling) ~> (pc = "done" /\ runResult = "ctx_err")

\* Run returned although a tick was ready as well when the select chose
\* ctx.Done(), after cycles had failed
C12_Witness ==
    /\ pc = "done"
    /\ runResult = "ctx_err"
    /\ tickPending
    /\ lastCycle = "failed"
    /\ failStreak = MaxOutage

\* C13: once registration has succeeded Run returns only on cancellation:
\* it has returned exactly when its result is ctx.Err(), and then the
\* context was cancelled and Unregister was called; no failure of a cycle,
\* a handler, a conversion or a submission ends it.
C13_OnlyCancellationEndsRun ==
    registered = "ok" =>
        /\ runResult \in {"none", "ctx_err"}
        /\ (pc = "done") <=> (runResult = "ctx_err")
        /\ pc = "done" => ctxCancelled /\ unregisterCalls = 1

\* the loop goes on after a failed cycle and a batch with a missing handler,
\* a failing handler, a result that cannot be converted and a failed
\* submission
C13_Witness ==
    /\ registered = "ok"
    /\ CycleEnded
    /\ failStreak = 1
    /\ Len(batch) = 3
    /\ batch[1].type = UNSPECIFIED
    /\ batch[2].type = POLL_INTERVAL /\ batch[2].payload = 9
    /\ batch[3].type = POLL_INTERVAL /\ batch[3].payload = 300
    /\ \A i \in 1..3 : IsFailure(submits[i].result)
    /\ submitFailed
    /\ ~ctxCancelled
    /\ runResult = "none"

\* C18: once Run has registered, the identity is the one Register discovered
\* and sent in the RegisterAgent request, in every later state of the loop
\* and of the shutdown; the GetInstructions, SubmitInstructionResult and
\* UnregisterAgent requests carry that id.
C18_IdentityFixed ==
    registered = "ok" =>
        /\ agentID # <<>>
        /\ agentID = reqIds["RegisterAgent"]
        /\ hostname = GetHostname
        /\ ipAddress = GetPrimaryIPAddress
        /\ reqIds["GetInstructions"] \in {<<>>, reqIds["RegisterAgent"]}
        /\ reqIds["UnregisterAgent"] \in {<<>>, reqIds["RegisterAgent"]}
        /\ \A j \in 1..Len(submits) :
               submits[j].agentId = reqIds["RegisterAgent"]

\* the second cycle has polled and reported three results, one of them of
\* a POLL_INTERVAL instruction that was applied
C18_Witness ==
    /\ registered = "ok"
    /\ lastCycle = "ok"
    /\ CycleEnded
    /\ reqIds["RegisterAgent"] = GenerateUUID(GetHostname, GetPrimaryIPAddress)
    /\ reqIds["GetInstructions"] = GenerateUUID(GetHostname, GetPrimaryIPAddress)
    /\ Len(submits) = 3
    /\ \A j \in 1..3 : submits[j].agentId = GenerateUUID(GetHostname, GetPrimaryIPAddress)
    /\ callbackInterval = 300
    /\ agentID = GenerateUUID(GetHostname, GetPrimaryIPAddress)

\* C19 (as claimed): as long as no registration of the agent has succeeded,
\* every Unregister returned 'agent not registered' and no UnregisterAgent
\* request was sent.
C19_UnregisterNeedsRegistration ==
    (registered # "ok" /\ unregisterCalls > 0) =>
        /\ unregisterResult = "not_registered"
        /\ reqIds["UnregisterAgent"] = <<>>

\* position of the instruction with this id in the response
PositionOf(id) == CHOOSE k \in 1..Len(batch) : batch[k].id = id

\* C20: in a poll cycle the results are submitted in the order the response
\* lists the instructions; a handler is invoked only when the results of all
\* instructions listed before its own have been submitted, so handlers run
\* in delivery order, and every handler invoked so far has returned and had
\* its result submitted, so none is in progress when the next is invoked.
C20_SequentialInOrder ==
    pc = "dispatch" =>
        /\ \A j \in 1..Len(submits) : submits[j].instructionId = batch[j].id
        /\ \A j \in 1..Len(execs) :
               /\ \E k \in 1..Len(batch) : batch[k].id = execs[j].id
               /\ execs[j].after = PositionOf(execs[j].id) - 1
               /\ Cardinality(SubmitsFor(execs[j].id)) = 1
        /\ \A j1, j2 \in 1..Len(execs) :
               j1 < j2 => PositionOf(execs[j1].id) < PositionOf(execs[j2].id)

C20_Witness ==
    /\ CycleEnded
    /\ Len(batch) = 3
    /\ batch[1].type = COLLECT_HARDWARE
    /\ batch[2].type = HEALTH_CHECK
    /\ batch[3].type = POLL_INTERVAL /\ batch[3].payload = 300
    /\ [j \in 1..3 |-> execs[j].id] = [j \in 1..3 |-> batch[j].id]
    /\ [j \in 1..3 |-> execs[j].after] = <<0, 1, 2>>
    /\ [j \in 1..3 |-> submits[j].instructionId] = [j \in 1..3 |-> batch[j].id]

\* ------------------------------------------------------------------
\* the calls recorded so far on the Backoff
Ops == [i \in 1..Len(calls) |-> calls[i].op]

IsNext(c) == c.op = "Next"

IsNotCurrent(op) == op # "Current"

\* what the Next calls among the recorded calls returned, oldest first
NextReturned == [i \in 1..Len(SelectSeq(calls, IsNext)) |->
                    SelectSeq(calls, IsNext)[i].ret]

\* what the Next calls of a sequence of calls return on a Backoff whose
\* delay is cur
RECURSIVE NextReturns(_, _)
NextReturns(ops, cur) ==
    IF ops = <<>> THEN <<>>
    ELSE CASE Head(ops) = "Next" ->
                <<BackoffNext(cur).ret>>
                    \o NextReturns(Tail(ops), BackoffNext(cur).current)
           [] Head(ops) = "Reset" -> NextReturns(Tail(ops), BackoffReset)
           [] Head(ops) = "Current" ->
                NextReturns(Tail(ops), BackoffCurrent(cur).current)

OnlyNext(n) == \A i \in 1..n : calls[i].op = "Next"

\* C14: on a fresh Backoff the n-th consecutive Next returns
\* min(2^(n-1), 60); the first nine return 1,2,4,8,16,32,60,60,60 and every
\* later one returns 60.
C14_NextProgression ==
    \A n \in 1..Len(calls) :
        OnlyNext(n) =>
            /\ calls[n].ret = Min(Pow2(n - 1), 60)
            /\ n <= 9 => calls[n].ret = <<1, 2, 4, 8, 16, 32, 60, 60, 60>>[n]
            /\ n > 9 => calls[n].ret = 60

C14_Witness ==
    /\ Len(calls) = 10
    /\ OnlyNext(10)
    /\ [i \in 1..9 |-> calls[i].ret] = <<1, 2, 4, 8, 16, 32, 60, 60, 60>>
    /\ calls[10].ret = 60

\* C15: whatever was called before, a Reset leaves the delay at 1 second:
\* the Next or the Current that follows it returns 1.
C15_ResetRestoresInitial ==
    \A i \in 1..Len(calls) :
        calls[i].op = "Reset" =>
            /\ calls[i].after = 1
            /\ i = Len(calls) => backoff = 1
            /\ i < Len(calls) /\ calls[i + 1].op \in {"Next", "Current"} =>
                   calls[i + 1].ret = 1

\* the delay had reached the cap, was peeked, reset, peeked and advanced
C15_Witness ==
    /\ Len(calls) = 10
    /\ OnlyNext(6)
    /\ calls[7].op = "Current" /\ calls[7].ret = 60
    /\ calls[8].op = "Reset" /\ calls[8].before = 60
    /\ calls[9].op = "Current" /\ calls[9].ret = 1
    /\ calls[10].op = "Next" /\ calls[10].ret = 1

\* C16: Current returns the delay and leaves it as it is, and that delay is
\* what the next Next returns; the values the Next calls returned are the
\* ones they return when the Current calls are left out.
C16_CurrentIsPure ==
    /\ \A i \in 1..Len(calls) :
           /\ calls[i].op = "Current" =>
                  calls[i].after = calls[i].before /\ calls[i].ret = calls[i].before
           /\ calls[i].op = "Next" => calls[i].ret = calls[i].before
           /\ i < Len(calls) => calls[i + 1].before = calls[i].after
    /\ NextReturned = NextReturns(SelectSeq(Ops, IsNotCurrent), NewBackoff)

C16_Witness ==
    /\ Len(calls) = 8
    /\ \A i \in {1, 3, 5, 7} : calls[i].op = "Current"
    /\ \A i \in {2, 4, 6, 8} : calls[i].op = "Next"
    /\ calls[7].ret = 8
    /\ NextReturned = <<1, 2, 4, 8>>

\* C17: the delay of a Backoff and every value Next returned are within
\* [1, 60] seconds.
C17_DelayInRange ==
    /\ backoff >= 1 /\ backoff <= 60
    /\ \A i \in 1..Len(calls) :
           /\ calls[i].after >= 1 /\ calls[i].after <= 60
           /\ calls[i].op = "Next" => calls[i].ret >= 1 /\ calls[i].ret <= 60

C17_Witness ==
    /\ Len(calls) = 10
    /\ calls[1].op = "Next"
    /\ calls[2].op = "Reset"
    /\ calls[10].op = "Next" /\ calls[10].ret = 60
    /\ backoff = 60

\* C21: at most one poll cycle is in progress.  A cycle is in progress
\* exactly while Run is inside poll or inside the backoff sleep that follows
\* a failed poll; a tick that fires meanwhile is kept by the ticker and
\* starts nothing until Run is back at the select with no cycle in progress.
C21_OneCycleAtATime ==
    /\ cycles \in {0, 1}
    /\ cycles = 1 <=> pc \in {"get", "dispatch", "sleep"}
    /\ pc = "select" => cycles = 0 /\ sleepLeft = 0 /\ batch = <<>>

\* the backoff sleep in progress outlasts the ticker's next grid point
C21_Witness ==
    /\ pc = "sleep"
    /\ sleepLeft >= tickIn
    /\ TickerAfter(sleepLeft).pending
    /\ cycles = 1

\* C22: no connection is held across ticks.  A client connection is open
\* only while poll is between the creation of its client and its return;
\* Register and Unregister close the client they created before they
\* return, so no connection is open before Run starts, while Run waits on
\* the select or sleeps through a backoff, or after Run has returned.
C22_NoConnectionAcrossTicks ==
    /\ openConns \in {0, 1}
    /\ openConns = 1 <=> pc \in {"get", "dispatch"}
    /\ connOpen <=> openConns = 1
    /\ pc \in {"start", "select", "sleep", "done"} => openConns = 0

\* Run waits on the select after Register succeeded and a poll failed in
\* its GetInstructions call
C22_Witness ==
    /\ pc = "select"
    /\ registered = "ok"
    /\ lastCycle = "failed"
    /\ reqIds["GetInstructions"] = agentID
    /\ openConns = 0

\* the calls of Register for type t made before call i of the registry
RegistersBefore(i, t) ==
    {j \in 1..(i - 1) : calls[j].op = "Register" /\ calls[j].type = t}

\* the latest of a non-empty set of calls
Latest(js) == CHOOSE j \in js : \A k \in js : k <= j

\* C23: the registry holds one handler per type and the last registration
\* wins.  After any sequence of Register calls the handlers map gives each
\* registered type the handler of the latest Register for that type, and
\* Execute for an instruction of that type invokes that handler and no
\* other, returning what that handler returns.
C23_LastRegistrationWins ==
    /\ \A t \in DOMAIN registry :
           /\ RegistersBefore(Len(calls) + 1, t) # {}
           /\ registry[t] = calls[Latest(RegistersBefore(Len(calls) + 1, t))].handler
    /\ \A i \in 1..Len(calls) :
           (/\ calls[i].op = "Execute"
            /\ RegistersBefore(i, calls[i].type) # {})
           => LET h == calls[Latest(RegistersBefore(i, calls[i].type))].handler
              IN  /\ calls[i].ret.invoked = <<h>>
                  /\ calls[i].ret.err = MockExecute(h).err
                  /\ calls[i].ret.data = MockExecute(h).data

\* a type is registered twice with different handlers and then executed
C23_Witness ==
    /\ Len(calls) = 3
    /\ calls[1].op = "Register" /\ calls[1].type = HEALTH_CHECK
    /\ calls[1].handler = "mockError"
    /\ calls[2].op = "Register" /\ calls[2].type = HEALTH_CHECK
    /\ calls[2].handler = "mockResult"
    /\ calls[3].op = "Execute" /\ calls[3].type = HEALTH_CHECK
    /\ calls[3].ret.invoked = <<"mockResult">>
    /\ calls[3].ret.err = NoError

\* the calls of Execute made on the registry
ExecuteCalls == {i \in 1..Len(calls) : calls[i].op = "Execute"}

MissingHandlerError(t) == <<"no handler registered for instruction type:", t>>

\* C24: Registry.Execute fails without invoking a handler when the
\* instruction is nil or its type has no handler, with one error for the
\* first case and another for the second; otherwise it invokes the
\* registered handler exactly once and returns that handler's result and
\* error as they are, whether or not the context is cancelled.
C24_ExecuteErrors ==
    \A i \in ExecuteCalls :
        LET c == calls[i]
        IN  /\ c.type = "nil" =>
                   /\ c.ret.err = NilInstructionError
                   /\ c.ret.invoked = <<>>
            /\ (c.type # "nil" /\ ~HasHandler(c.before, c.type)) =>
                   /\ c.ret.err = MissingHandlerError(c.type)
                   /\ c.ret.err # NilInstructionError
                   /\ c.ret.invoked = <<>>
            /\ (c.type # "nil" /\ HasHandler(c.before, c.type)) =>
                   /\ c.ret.invoked = <<c.before[c.type]>>
                   /\ c.ret.err = MockExecute(c.before[c.type]).err
                   /\ c.ret.data = MockExecute(c.before[c.type]).data

\* under a cancelled context: a nil instruction, an instruction without a
\* handler, and one whose handler returns a result together with an error
C24_Witness ==
    /\ Len(calls) = 3
    /\ calls[1].op = "Register" /\ calls[1].type = HEALTH_CHECK
    /\ calls[1].handler = "mockBoth"
    /\ calls[2].op = "Execute" /\ calls[2].type = POLL_INTERVAL
    /\ calls[2].ctxDone
    /\ calls[2].ret.err = MissingHandlerError(POLL_INTERVAL)
    /\ calls[3].op = "Execute" /\ calls[3].type = HEALTH_CHECK
    /\ calls[3].ctxDone
    /\ calls[3].ret.invoked = <<"mockBoth">>
    /\ calls[3].ret.err = <<"handler error">>
    /\ calls[3].ret.data = [status |-> "partial"]

\* C25: HasHandler(t) is true exactly when Register was called with type
\* t; Register changes the answer for no other type, and HasHandler and
\* Execute leave the handlers map as it was.
C25_HasHandlerIffRegistered ==
    /\ \A t \in RegistryTypes :
           HasHandler(registry, t) <=> RegistersBefore(Len(calls) + 1, t) # {}
    /\ \A i \in 1..Len(calls) :
           LET c == calls[i]
           IN  /\ c.op = "HasHandler" =>
                      (c.ret.has <=> RegistersBefore(i, c.type) # {})
               /\ c.op = "Register" =>
                      \A t \in RegistryTypes \ {c.type} :
                          HasHandler(c.after, t) <=> HasHandler(c.before, t)
               /\ c.op \in {"HasHandler", "Execute"} => c.after = c.before

\* one type is registered; HasHandler is then asked for the other type
\* and for the registered one
C25_Witness ==
    /\ Len(calls) = 3
    /\ calls[1].op = "Register" /\ calls[1].type = HEALTH_CHECK
    /\ calls[2].op = "HasHandler" /\ calls[2].type = POLL_INTERVAL
    /\ ~calls[2].ret.has
    /\ calls[3].op = "HasHandler" /\ calls[3].type = HEALTH_CHECK
    /\ calls[3].ret.has
    /\ DOMAIN registry = {HEALTH_CHECK}

\* the calls of the named kind made on the handlers
CallsOf(op) == {i \in 1..Len(calls) : calls[i].op = op}

\* the instruction carries an interval_seconds the handler accepts
ValidInterval(ins) ==
    /\ ins # NilInstruction
    /\ ins.payload # Malformed
    /\ ins.payload >= 10
    /\ ins.payload <= 300

\* C26: the poll-interval handler succeeds exactly for a non-nil
\* instruction whose payload parses to an interval_seconds N within
\* [10, 300].  On success the callback is invoked with N, the result is
\* status ok with interval_seconds N, and the agent's poll interval is N;
\* on every failure the callback is not invoked and the agent is as it was.
C26_PollIntervalHandler ==
    \A i \in CallsOf("PollInterval") :
        LET c == calls[i]
        IN  /\ c.ret.err = NoError <=> ValidInterval(c.ins)
            /\ ValidInterval(c.ins) =>
                   /\ c.ret.interval = c.ins.payload
                   /\ c.ret.data = [status |-> "ok",
                                    interval_seconds |-> c.ins.payload]
                   /\ c.after.pollInterval = c.ins.payload
            /\ ~ValidInterval(c.ins) =>
                   /\ c.ret.interval = 0
                   /\ c.ret.data = NoData
                   /\ c.after = c.before

\* an accepted interval of 10 seconds, then a rejected one of 301
C26_Witness ==
    /\ Len(calls) = 2
    /\ calls[1].op = "PollInterval" /\ calls[1].ins.payload = 10
    /\ calls[1].ret.err = NoError
    /\ calls[2].op = "PollInterval" /\ calls[2].ins.payload = 301
    /\ calls[2].ret.err # NoError
    /\ pollInterval = 10

\* C27: the health-check handler succeeds for every non-nil instruction,
\* whatever its payload and whether or not the context is cancelled, with
\* a non-empty result of status active; it fails for a nil instruction
\* only, and it leaves the agent as it was.
C27_HealthCheckHandler ==
    \A i \in CallsOf("HealthCheck") :
        LET c == calls[i]
        IN  /\ c.ret.err = NoError <=> c.ins # NilInstruction
            /\ c.ins # NilInstruction =>
                   /\ c.ret.data # NoData
                   /\ c.ret.data.status = "active"
            /\ c.ins = NilInstruction => c.ret.err = NilInstructionError
            /\ c.ret.interval = 0
            /\ c.after = c.before

\* a health check with an unparseable payload under a cancelled context,
\* and one of a nil instruction
C27_Witness ==
    /\ Len(calls) = 2
    /\ calls[1].op = "HealthCheck" /\ calls[1].ins # NilInstruction
    /\ calls[1].ins.payload = Malformed /\ calls[1].ctxDone
    /\ calls[1].ret.err = NoError
    /\ calls[2].op = "HealthCheck" /\ calls[2].ins = NilInstruction
    /\ calls[2].ret.err # NoError

\* C29: a new agent has a poll interval of 60 seconds, no agent id and a
\* registry with the poll-interval, health-check and hardware handlers
\* under their types; the callback of its poll-interval handler is
\* updatePollInterval, which sets the agent's poll interval to the value
\* it is given.
C29_NewAgent ==
    /\ calls = <<>> => pollInterval = 60 /\ agentID = <<>>
    /\ DOMAIN registry = {POLL_INTERVAL, HEALTH_CHECK, COLLECT_HARDWARE}
    /\ registry[POLL_INTERVAL] = "PollIntervalHandler"
    /\ registry[HEALTH_CHECK] = "HealthCheckHandler"
    /\ registry[COLLECT_HARDWARE] = "CollectHardwareHandler"
    /\ \A i \in CallsOf("updatePollInterval") :
           calls[i].after.pollInterval = calls[i].ret.interval
    /\ \A i \in CallsOf("Registry") :
           LET c == calls[i]
           IN  /\ c.ret.invoked = <<registry[c.ins.type]>>
               /\ c.ins.type = POLL_INTERVAL =>
                      c.after.pollInterval = c.ins.payload
               /\ c.ins.type # POLL_INTERVAL => c.after = c.before

\* updatePollInterval is given 5 seconds, then the agent's registry
\* executes a POLL_INTERVAL instruction of 300 seconds
C29_Witness ==
    /\ Len(calls) = 2
    /\ calls[1].op = "updatePollInterval"
    /\ calls[1].before.pollInterval = 60
    /\ calls[1].after.pollInterval = 5
    /\ calls[2].op = "Registry" /\ calls[2].ins.type = POLL_INTERVAL
    /\ calls[2].ret.invoked = <<"PollIntervalHandler">>
    /\ pollInterval = 300

C30_SignalAlwaysGraceful ==
    exitCode # Running =>
        /\ exitCode = 1 <=> registered = "failed"
        /\ (ctxCancelled /\ reqIds["RegisterAgent"] # <<>>) => exitCode = 0

\* C30 (amended): the process exits once Run has returned, with a failure
\* exactly when the initial registration failed, which includes a
\* registration that failed because the signal came before it was done;
\* after a registration that succeeded the process ends only on
\* cancellation and exits gracefully, whatever Unregister returned.
C30_ExitOutcome ==
    exitCode # Running =>
        /\ pc = "done"
        /\ exitCode \in {0, 1}
        /\ exitCode = 1 <=> registered = "failed"
        /\ exitCode = 1 <=> runResult = "registration_failed"
        /\ exitCode = 0 <=> (registered = "ok" /\ ctxCancelled
                             /\ runResult = "ctx_err"
                             /\ unregisterResult \in UnregisterOutcomes)

\* a graceful exit after polling, although the UnregisterAgent call failed
C30_Witness ==
    /\ exitCode = 0
    /\ polled
    /\ ctxCancelled
    /\ unregisterResult = "rpc_err"

\* C31: a poll cycle fails, and the loop backs off, exactly when the client
\* could not be created or the GetInstructions call failed: the backoff
\* sleep is entered from the select or from the GetInstructions call only
\* and then the cycle counts as failed, while the range loop, whatever
\* failed in it (a handler, a missing handler, a conversion, a submission),
\* moves on by one instruction at a time and ends in a successful cycle
\* without a sleep.
C31_OnlyFetchFailsCycle ==
    [][/\ (pc' = "sleep" /\ pc # "sleep") =>
              /\ pc \in {"select", "get"}
              /\ lastCycle' = "failed"
              /\ failStreak' >= 1
              /\ sleepLeft' = backoff
              /\ ~connOpen'
       /\ (pc \in {"select", "get"} /\ pc' \in {"select", "get", "dispatch"}) =>
              /\ lastCycle' = lastCycle
              /\ backoff' = backoff
       /\ pc = "dispatch" =>
              /\ pc' \in {"dispatch", "select"}
              /\ sleepLeft' = 0
              /\ idx' \in {idx, idx + 1} \/ pc' = "select"
              /\ pc' = "dispatch" => lastCycle' = lastCycle /\ backoff' = backoff
              /\ pc' = "select" =>
                     /\ idx = Len(batch) + 1
                     /\ Len(submits) = Len(batch)
                     /\ lastCycle' = "ok"
                     /\ failStreak' = 0
                     /\ backoff' = InitialBackoff]_vars

\* a cycle in which a result could not be submitted has ended as a
\* successful one, after an earlier cycle had failed
C31_Witness ==
    /\ pc = "select"
    /\ lastCycle = "ok"
    /\ submitFailed
    /\ backoffBeforeReset > InitialBackoff
    /\ backoff = InitialBackoff
    /\ sleepLeft = 0

\* C32 (as claimed): once the context is cancelled the loop starts no new
\* poll cycle: from the select it goes to the shutdown branch and Run
\* returns, also when a tick is ready at the same moment.
C32_NoCycleAfterCancel ==
    [][(pc = "select" /\ ctxCancelled) =>
           /\ pc' = "done"
           /\ cycles' = cycles
           /\ unregisterCalls' = unregisterCalls + 1]_vars

\* C33: cancellation is not preemptive.  With the context cancelled in the
\* middle of a batch each step of the loop still takes exactly the next
\* instruction, runs its handler when one is registered and attempts one
\* submission for it; poll returns only behind the last instruction; a
\* backoff sleep lasts its whole delay; and the unregister call is made
\* only from the select, with no cycle and no sleep in progress.
C33_CancelNotPreemptive ==
    [][/\ (ctxCancelled /\ pc = "dispatch") =>
              /\ pc' \in {"dispatch", "select"}
              /\ unregisterCalls' = unregisterCalls
              /\ pc' = "dispatch" =>
                     /\ idx <= Len(batch) /\ idx' = idx + 1
                     /\ Len(submits') = Len(submits) + 1
                     /\ submits'[Len(submits')].instructionId = batch[idx].id
                     /\ HasHandler(registry, batch[idx].type) =>
                            /\ Len(execs') = Len(execs) + 1
                            /\ execs'[Len(execs')].id = batch[idx].id
              /\ pc' = "select" =>
                     /\ idx = Len(batch) + 1
                     /\ Len(submits) = Len(batch)
       /\ (ctxCancelled /\ pc = "sleep") =>
              /\ unregisterCalls' = unregisterCalls
              /\ pc' \in {"sleep", "select"}
              /\ pc' = "select" =>
                     /\ tickIn' = TickerAfter(sleepLeft).tickIn
                     /\ tickPending' = TickerAfter(sleepLeft).pending
       /\ unregisterCalls' # unregisterCalls =>
              /\ pc = "select" /\ ctxCancelled
              /\ cycles = 0 /\ sleepLeft = 0 /\ batch = <<>>]_vars

\* the signal arrived in the middle of a batch of three: one instruction has
\* been processed under the cancelled context and one is still to come
C33_Witness ==
    /\ pc = "dispatch" /\ ctxCancelled
    /\ Len(batch) = 3 /\ idx = 3
    /\ Len(submits) = 2 /\ Len(execs) = 2
    /\ submitFailed
    /\ unregisterCalls = 0

\* C34: the loop only advances Unregistered (start), Registering, Polling,
\* ShuttingDown, Terminated (done).  A GetInstructions or a
\* SubmitInstructionResult call is made only after RegisterAgent succeeded
\* and before Unregister was called; Unregister is called at most once, only
\* after a successful registration; a terminated Run makes no call at all.
C34_StatesOnlyAdvance ==
    [][/\ pc = "start" =>
              /\ pc' \in {"start", "select", "done"}
              /\ pc' = "select" <=> registered' = "ok"
              /\ pc' = "done" <=> registered' = "failed"
       /\ Polling =>
              /\ pc' \in {"select", "get", "dispatch", "sleep", "done"}
              /\ pc' = "done" <=> unregisterCalls' = unregisterCalls + 1
              /\ registerCalls' = registerCalls
       /\ pc = "done" =>
              /\ pc' = "done"
              /\ UNCHANGED <<registerCalls, unregisterCalls, reqIds, submits,
                             cycles, openConns>>
       /\ ((pc = "get" /\ pc' # "get") \/ Len(submits') > Len(submits)) =>
              /\ registered = "ok" /\ registerCalls = 1
              /\ unregisterCalls = 0 /\ unregisterCalls' = 0
       /\ unregisterCalls' # unregisterCalls =>
              /\ registered = "ok" /\ registerCalls = 1
              /\ unregisterCalls = 0 /\ unregisterCalls' = 1]_vars

\* a Run that registered, polled, submitted a result, and sent its one
\* UnregisterAgent request
C34_Witness ==
    /\ pc = "done" /\ registered = "ok"
    /\ reqIds["GetInstructions"] # <<>>
    /\ reqIds["UnregisterAgent"] # <<>>
    /\ submitFailed
    /\ unregisterCalls = 1 /\ registerCalls = 1

\* the interval after the response and the first k instructions of the batch
\* have been applied in that order
RECURSIVE IntervalAfter(_)
IntervalAfter(k) ==
    IF k = 0
    THEN IF respInterval > 0 THEN respInterval ELSE cycleInterval
    ELSE IF batch[k].type = POLL_INTERVAL /\ ValidInterval(batch[k])
    THEN batch[k].payload
    ELSE IntervalAfter(k - 1)

\* C35: within one successful cycle the last writer decides the interval:
\* while the batch is processed the interval is the value of the last valid
\* POLL_INTERVAL instruction processed so far, else the response's positive
\* pollIntervalSeconds, else the interval the cycle started with; when poll
\* returns, the ticker is re-armed with that final value.
C35_LastWriterWins ==
    [][/\ pc = "dispatch" => pollInterval = IntervalAfter(idx - 1)
       /\ (pc = "dispatch" /\ pc' = "select") =>
              /\ pollInterval' = IntervalAfter(Len(batch))
              /\ tickerPeriod' = IntervalAfter(Len(batch))
              /\ tickIn' = IntervalAfter(Len(batch))
              /\ ~tickPending']_vars

\* a batch whose first instruction sets 300 seconds and whose last sets 30,
\* after a response that asked for 5
C35_Witness ==
    /\ CycleEnded
    /\ Len(batch) = 3
    /\ respInterval = 5
    /\ batch[1].type = POLL_INTERVAL /\ batch[1].payload = 300
    /\ batch[2].type = POLL_INTERVAL /\ batch[2].payload = 9
    /\ batch[3].type = POLL_INTERVAL /\ batch[3].payload = 30
    /\ pollInterval = 30

\* the requests of the piggybacked version that the server answered
Answered == {j \in 1..Len(calls) : calls[j].ok}

\* C36 (as claimed): every request sent carries the id and the result data
\* of the last instruction processed in the previous answered cycle; a
\* result's data rides on at most one answered request; a request that
\* follows a failed one carries the same acknowledgment; and a request that
\* follows a cycle which processed no instruction acknowledges nothing.
C36_PiggybackedAck ==
    /\ \A j \in 1..Len(calls) :
          calls[j].sent =>
             /\ calls[j].lastInstructionId = calls[j].processed.id
             /\ calls[j].resultData = calls[j].processed.data
    /\ \A i \in Answered, j \in Answered :
          (i # j /\ calls[i].lastInstructionId = calls[j].lastInstructionId)
              => (calls[i].resultData = NoData \/ calls[j].resultData = NoData)
    /\ \A j \in 1..(Len(calls) - 1) :
          (calls[j].sent /\ ~calls[j].ok) =>
             /\ calls[j + 1].lastInstructionId = calls[j].lastInstructionId
             /\ calls[j + 1].resultData = calls[j].resultData

\* C37 (as claimed): when the next request has been answered, every
\* instruction of the batch before it has had exactly one result delivered
\* in an answered request.
C37_EveryInstructionReported ==
    [][(pc = "piggyback" /\ pc' = "piggyback_loop") =>
           \A k \in 1..Len(batch) :
              Cardinality({j \in 1..Len(calls') :
                              /\ calls'[j].ok
                              /\ calls'[j].lastInstructionId = batch[k].id
                              /\ calls'[j].resultData # NoData}) = 1]_vars

\* C38: hardware collection degrades to partial data.  Execute fails exactly
\* when the instruction is nil or lspci fails; otherwise the result lists
\* every device found, in order, whatever read failed on any of them, and
\* each read that did not fail has left its value.
C38_PartialHardwareData ==
    \A c \in 1..Len(calls) :
       LET call == calls[c]
           nics == call.ret.data.network_interfaces
       IN  call.op = "Execute" =>
           /\ call.ret.err # NoError <=>
                  (call.ins = NilInstruction \/ ~call.lspciOk)
           /\ call.ret.err # NoError => call.ret.data = NoData
           /\ call.ret.err = NoError =>
                  /\ Len(nics) = call.devices
                  /\ \A d \in 1..call.devices :
                        /\ nics[d].pci_address = d
                        /\ \A a \in Attributes \ {"ports"} :
                              nics[d][a] = IF a \in call.failures[d]
                                           THEN <<>> ELSE <<a, d>>
                        /\ "ports" \in DOMAIN nics[d] <=>
                               "ports" \notin call.failures[d]
                        /\ nics[d].port_count =
                               IF "ports" \in call.failures[d] THEN 0 ELSE 1

\* two devices: every read fails on the first, the name of the second
\* cannot be read, and both are in the result
C38_Witness ==
    /\ pc = "hardware"
    /\ Len(calls) = 1
    /\ calls[1].ins # NilInstruction
    /\ calls[1].devices = 2
    /\ calls[1].failures[1] = Attributes
    /\ calls[1].failures[2] = {"device_name"}
    /\ calls[1].ret.err = NoError
    /\ Len(calls[1].ret.data.network_interfaces) = 2
    /\ calls[1].ret.data.network_interfaces[2].psid = <<"psid", 2>>

\* the error that made the k-th instruction of the batch fail: the message
\* about its missing handler, else the error of its handler, else the error
\* of the conversion of its result
FailureCause(k) ==
    LET ins == batch[k]
        ran == {j \in ExecsFor(ins.id) : execs[j].err # NoError}
    IN  IF ~HasHandler(registry, ins.type)
        THEN <<"no handler registered for instruction type", ins.type>>
        ELSE IF ran # {}
        THEN execs[CHOOSE j \in ran : TRUE].err
        ELSE IF ins.type = COLLECT_HARDWARE
        THEN <<"failed to parse hardware result">>
        ELSE <<"unsupported instruction type:", ins.type>>

\* C39: every failure result submitted carries the id and the type of its
\* instruction, is marked not healthy, and its message is the text of the
\* error that caused it, alone or behind a fixed prefix.
C39_FailureResultCarriesCause ==
    \A k \in 1..Len(submits) :
       (Polling /\ k <= Len(batch) /\ IsFailure(submits[k].result)) =>
          /\ submits[k].instructionId = batch[k].id
          /\ submits[k].result.instructionType = batch[k].type
          /\ ~submits[k].result.healthy
          /\ \E prefix \in {<<>>, <<"instruction failed:">>} :
                submits[k].result.errorMessage = prefix \o FailureCause(k)

\* one batch with the three causes: a type without a handler, a handler
\* that rejects its payload, and a hardware result that does not parse
C39_Witness ==
    /\ CycleEnded
    /\ Len(batch) = 3 /\ Len(submits) = 3
    /\ batch[1].type = UNSPECIFIED
    /\ batch[2].type = POLL_INTERVAL /\ batch[2].payload = 9
    /\ batch[3].type = COLLECT_HARDWARE
    /\ \A k \in 1..3 : IsFailure(submits[k].result)
    /\ ExecsFor(batch[3].id) # {}
    /\ \A j \in ExecsFor(batch[3].id) : execs[j].err = NoError

====
